---------------------------- MODULE Spec2Model ----------------------------
(***************************************************************************)
(* Model of the metadata learning / suggestion core of the metadata editor *)
(* (src/app.py, src/modules/database.py, src/modules/learning_engine.py,   *)
(* src/modules/metadata_handler.py).                                       *)
(*                                                                         *)
(* Python strings are sequences of one-character strings, so that str(),   *)
(* strip() and truthiness are computed and not assumed.  Python values are *)
(* tagged records [t, v].  The metadata_learning table is a set of rows    *)
(* with AUTOINCREMENT ids.  CURRENT_TIMESTAMP is the clock `now`.          *)
(***************************************************************************)
EXTENDS Integers, Sequences, FiniteSets, TLC

VARIABLES rows, nextId, now, saved, op, arg, ret, calls, pc, local, user_preferences, preference_set,
          engine_user_preferences, preference_saves, recent_folders, folder_accesses,
          field_patterns

vars == <<rows, nextId, now, saved, op, arg, ret, calls, pc, local,
         user_preferences, preference_set, engine_user_preferences, preference_saves,
         recent_folders, folder_accesses, field_patterns>>

(***************************************************************************)
(* Bounds of the model.                                                    *)
(***************************************************************************)
MaxTime == 2
MaxCount == 2
MaxLimit == 2
NumWorkers == 2
MaxBatch == 3
MaxFields == 2
MaxHistory == 2

(***************************************************************************)
(* Python values and strings.                                              *)
(***************************************************************************)
PyNone == [t |-> "None", v |-> 0]
PyS(s) == [t |-> "str", v |-> s]
PyInt(n) == [t |-> "int", v |-> n]
PyBool(b) == [t |-> "bool", v |-> b]
PyList(l) == [t |-> "list", v |-> l]

Whitespace == {" ", "\t", "\n"}
Digits == <<"0", "1", "2", "3", "4", "5", "6", "7", "8", "9">>

RECURSIVE LStrip(_)
LStrip(s) ==
    IF s # <<>> /\ Head(s) \in Whitespace THEN LStrip(Tail(s)) ELSE s

RECURSIVE RStrip(_)
RStrip(s) ==
    IF s # <<>> /\ s[Len(s)] \in Whitespace
    THEN RStrip(SubSeq(s, 1, Len(s) - 1))
    ELSE s

\* str.strip()
PyStrip(s) == RStrip(LStrip(s))

RECURSIVE NatToStr(_)
NatToStr(n) ==
    IF n < 10 THEN <<Digits[n + 1]>>
    ELSE NatToStr(n \div 10) \o <<Digits[(n % 10) + 1]>>

\* str(value) of a string, an int or a bool
PyStr(x) ==
    CASE x.t = "str" -> x.v
      [] x.t = "int" -> IF x.v < 0 THEN <<"-">> \o NatToStr(0 - x.v)
                        ELSE NatToStr(x.v)
      [] x.t = "bool" -> IF x.v THEN <<"T", "r", "u", "e">>
                         ELSE <<"F", "a", "l", "s", "e">>
      [] OTHER -> <<"N", "o", "n", "e">>

\* the truth value Python gives a string, an int or a bool
PyTruthy(x) ==
    CASE x.t = "str" -> x.v # <<>>
      [] x.t = "int" -> x.v # 0
      [] x.t = "bool" -> x.v
      [] OTHER -> FALSE

InList(x, l) == \E i \in 1..Len(l) : l[i] = x

\* sub in s, for two strings
Contains(sub, s) ==
    \E i \in 0..(Len(s) - Len(sub)) : SubSeq(s, i + 1, i + Len(sub)) = sub

\* str.isdigit() of a character, and the digit it is
IsDigit(c) == \E i \in 1..10 : Digits[i] = c
DigitValue(c) == (CHOOSE i \in 1..10 : Digits[i] = c) - 1

Artist == <<"A", "r", "t", "i", "s", "t">>
Flash == <<"F", "l", "a", "s", "h">>

(***************************************************************************)
(* The Usage Store: table metadata_learning.                               *)
(***************************************************************************)
NoRow == [id |-> 0, usage_count |-> 0]

Matching(rws, field_name, field_value) ==
    {r \in rws : r.field_name = field_name /\ r.field_value = field_value}

\* SELECT id, usage_count ... WHERE field_name = ? AND field_value = ? ; fetchone()
\* (the scan is in rowid order, so the first row is the one of least id)
SelectRow(rws, field_name, field_value) ==
    LET m == Matching(rws, field_name, field_value) IN
    IF m = {} THEN NoRow
    ELSE LET r == CHOOSE x \in m : \A y \in m : x.id <= y.id
         IN [id |-> r.id, usage_count |-> r.usage_count]

\* an UPDATE that forgets to refresh last_used
UpdateRow_stale_last_used(rws, record_id, new_count, clock) ==
    {IF r.id = record_id THEN [r EXCEPT !.usage_count = new_count] ELSE r : r \in rws}

\* UPDATE ... SET usage_count = ?, last_used = CURRENT_TIMESTAMP WHERE id = ?
UpdateRow(rws, record_id, new_count, clock) ==
    {IF r.id = record_id
     THEN [r EXCEPT !.usage_count = new_count, !.last_used = clock]
     ELSE r : r \in rws}

\* INSERT INTO metadata_learning (field_name, field_value, usage_count) VALUES (?, ?, 1)
InsertRow(rws, nid, field_name, field_value, clock) ==
    rws \cup {[id |-> nid, field_name |-> field_name, field_value |-> field_value,
               usage_count |-> 1, last_used |-> clock]}

\* a write half whose UPDATE has no WHERE clause: every row gets the new
\* last_used
SaveWriteRows_touches_every_row(rws, nid, clock, field_name, field_value, result) ==
    IF result # NoRow
    THEN [rows |-> {[r EXCEPT !.last_used = clock] :
                       r \in UpdateRow(rws, result.id, result.usage_count + 1, clock)},
          nextId |-> nid]
    ELSE [rows |-> InsertRow(rws, nid, field_name, field_value, clock),
          nextId |-> nid + 1]

\* The write half of save_metadata_value, given what the SELECT returned.
SaveWriteRows(rws, nid, clock, field_name, field_value, result) ==
    IF result # NoRow
    THEN [rows |-> UpdateRow(rws, result.id, result.usage_count + 1, clock),
          nextId |-> nid]
    ELSE [rows |-> InsertRow(rws, nid, field_name, field_value, clock),
          nextId |-> nid + 1]

\* a save whose write stays in the table when the storage raises afterwards
save_metadata_value_keeps_failed_write(rws, nid, clock, field_name, field_value, ok) ==
    LET w == SaveWriteRows(rws, nid, clock, field_name, field_value,
                           SelectRow(rws, field_name, field_value))
    IN [rows |-> w.rows, nextId |-> w.nextId, ret |-> ok]

\* Database.save_metadata_value run without interleaving; ok = FALSE is the
\* except branch (the storage raised): nothing is committed, False is returned.
save_metadata_value(rws, nid, clock, field_name, field_value, ok) ==
    IF ~ok THEN [rows |-> rws, nextId |-> nid, ret |-> FALSE]
    ELSE LET w == SaveWriteRows(rws, nid, clock, field_name, field_value,
                                SelectRow(rws, field_name, field_value))
         IN [rows |-> w.rows, nextId |-> w.nextId, ret |-> TRUE]

\* an ORDER BY usage_count DESC alone
SuggestionOrder_count_only(a, b) == a.usage_count >= b.usage_count

\* ORDER BY usage_count DESC, last_used DESC: a may stand before b
SuggestionOrder(a, b) ==
    \/ a.usage_count > b.usage_count
    \/ a.usage_count = b.usage_count /\ a.last_used >= b.last_used

\* every order of the rows S that the ORDER BY allows
OrderedSeqs(S) ==
    {s \in [1..Cardinality(S) -> S] :
        /\ \A i, j \in 1..Cardinality(S) : i # j => s[i] # s[j]
        /\ \A i, j \in 1..Cardinality(S) : i < j => SuggestionOrder(s[i], s[j])}

\* LIMIT ?  (a negative limit is no limit)
Limit(s, limit) ==
    IF limit < 0 \/ limit >= Len(s) THEN s ELSE SubSeq(s, 1, limit)

Suggestion(r) ==
    [value |-> r.field_value, usage_count |-> r.usage_count, last_used |-> r.last_used]

\* Database.get_field_suggestions: the lists it can return
get_field_suggestions(rws, field_name, limit, ok) ==
    IF ~ok THEN {<<>>}
    ELSE {[i \in 1..Len(Limit(s, limit)) |-> Suggestion(s[i])] :
            s \in OrderedSeqs({r \in rws : r.field_name = field_name})}

(***************************************************************************)
(* Metadata records: a record is the sequence of its sections in dict      *)
(* order; a section is a mapping (the sequence of its fields) or not.      *)
(***************************************************************************)
Section(name, fields) == [section |-> name, mapping |-> TRUE, fields |-> fields]
NotAMapping(name) == [section |-> name, mapping |-> FALSE, fields |-> <<>>]
Field(name, value) == [name |-> name, value |-> value]

HasKey(metadata, name) == \E i \in 1..Len(metadata) : metadata[i].section = name

\* for section, fields in metadata.items(): if not isinstance(fields, dict): continue
\*     for field_name, field_value in fields.items(): ...
RECURSIVE FlattenFields(_)
FlattenFields(metadata) ==
    IF metadata = <<>> THEN <<>>
    ELSE (IF Head(metadata).mapping THEN Head(metadata).fields ELSE <<>>)
         \o FlattenFields(Tail(metadata))

(***************************************************************************)
(* The trace of the calls one request handler makes.                       *)
(***************************************************************************)
Ev(call, entry, section, name, value, r) ==
    [call |-> call, entry |-> entry, section |-> section, name |-> name,
     value |-> value, ret |-> r]

(***************************************************************************)
(* MetadataHandler.update_metadata (merge).                                *)
(***************************************************************************)
Img == [name |-> "photo", suffix |-> ".jpg"]
Doc == [name |-> "notes", suffix |-> ".txt"]
Gone == [name |-> "gone", suffix |-> ".jpg"]

\* the files that exist (os.path.exists)
Files == {Img, Doc}

supported_formats == {".jpg", ".jpeg", ".png", ".tiff", ".tif", ".bmp", ".webp"}

MergeSections == <<"EXIF", "IPTC", "XMP">>

\* _update_exif_data, _update_iptc_data, _update_xmp_data: each logs and returns
\* True without writing; ok = FALSE is its except branch, which returns False
update_section_data(ok) == ok

\* a merge that stops at the first section whose write fails
MergeLoop_stop_at_failure(metadata, entry, wok, i, success, trace) ==
    LET RECURSIVE go(_, _, _)
        go(j, succ, tr) ==
            IF j > Len(MergeSections) \/ ~succ THEN [success |-> succ, calls |-> tr]
            ELSE IF HasKey(metadata, MergeSections[j])
                 THEN LET r == update_section_data(wok[<<entry, MergeSections[j]>>])
                      IN go(j + 1, succ /\ r,
                            Append(tr, Ev("write", entry, MergeSections[j], <<>>, <<>>, r)))
                 ELSE go(j + 1, succ, tr)
    IN go(i, success, trace)

\* lines 157-171: success = True; for EXIF, IPTC, XMP in turn, if the section is
\* in new_metadata: success &= the section's write path
RECURSIVE MergeLoop(_, _, _, _, _, _)
MergeLoop(metadata, entry, wok, i, success, trace) ==
    IF i > Len(MergeSections) THEN [success |-> success, calls |-> trace]
    ELSE IF HasKey(metadata, MergeSections[i])
         THEN LET r == update_section_data(wok[<<entry, MergeSections[i]>>])
              IN MergeLoop(metadata, entry, wok, i + 1, success /\ r,
                           Append(trace, Ev("write", entry, MergeSections[i], <<>>, <<>>, r)))
         ELSE MergeLoop(metadata, entry, wok, i + 1, success, trace)

\* MetadataHandler.update_metadata: a missing file raises FileNotFoundError,
\* which the except branch turns into False
update_metadata(image_path, new_metadata, entry, wok) ==
    IF image_path \notin Files THEN [success |-> FALSE, calls |-> <<>>]
    ELSE IF image_path.suffix \notin supported_formats
         THEN [success |-> FALSE, calls |-> <<>>]
         ELSE MergeLoop(new_metadata, entry, wok, 1, TRUE, <<>>)

(***************************************************************************)
(* MetadataHandler.validate_metadata.                                      *)
(***************************************************************************)
SectionError(section) == [kind |-> "section must be a dictionary", section |-> section]
EmptyNameError(section) == [kind |-> "field name cannot be empty", section |-> section]

\* lines 269-273: the loop over the fields of one section (a field name that
\* comes from JSON is always a string)
RECURSIVE FieldNameErrors(_, _)
FieldNameErrors(section, fields) ==
    IF fields = <<>> THEN <<>>
    ELSE (IF PyStrip(Head(fields).name) = <<>> THEN <<EmptyNameError(section)>> ELSE <<>>)
         \o FieldNameErrors(section, Tail(fields))

\* lines 262-273: the list `errors` when the loop over the sections ends
RECURSIVE ValidateErrors(_)
ValidateErrors(metadata) ==
    IF metadata = <<>> THEN <<>>
    ELSE (IF ~Head(metadata).mapping
          THEN <<SectionError(Head(metadata).section)>>
          ELSE FieldNameErrors(Head(metadata).section, Head(metadata).fields))
         \o ValidateErrors(Tail(metadata))

\* validate_metadata ends after the loop, with no return statement: whatever
\* `errors` holds, the call evaluates to None
validate_metadata(metadata) ==
    LET errors == ValidateErrors(metadata) IN PyNone

(***************************************************************************)
(* LearningEngine.learn_from_metadata (learn).                             *)
(***************************************************************************)
\* line 21: if field_value and str(field_value).strip()
LearnGuard(field_value) ==
    PyTruthy(field_value) /\ PyStrip(PyStr(field_value)) # <<>>

\* lines 16-26: the loop over the fields; the result of save_metadata_value is
\* not looked at
RECURSIVE LearnLoop(_, _, _, _, _)
LearnLoop(fields, entry, clock, oks, st) ==
    IF fields = <<>> THEN st
    ELSE IF ~LearnGuard(Head(fields).value)
         THEN LearnLoop(Tail(fields), entry, clock, oks, st)
         ELSE LET out == save_metadata_value(st.rows, st.nextId, clock, Head(fields).name,
                             PyStr(Head(fields).value), oks[<<entry, Len(st.calls) + 1>>])
              IN LearnLoop(Tail(fields), entry, clock, oks,
                           [rows |-> out.rows, nextId |-> out.nextId,
                            calls |-> Append(st.calls, Ev("save", entry, "", Head(fields).name,
                                                          PyStr(Head(fields).value), out.ret))])

\* LearningEngine.learn_from_metadata on a record: returns True after the loop
learn_from_metadata(rws, nid, clock, metadata, entry, oks) ==
    LET st == LearnLoop(FlattenFields(metadata), entry, clock, oks,
                        [rows |-> rws, nextId |-> nid, calls |-> <<>>])
    IN [rows |-> st.rows, nextId |-> st.nextId, calls |-> st.calls, ret |-> TRUE]

\* the number of save_metadata_value calls learn makes for a record
NumLearnCalls(metadata) ==
    Len(SelectSeq(FlattenFields(metadata), LAMBDA f : LearnGuard(f.value)))

(***************************************************************************)
(* The request handlers of app.py.                                         *)
(***************************************************************************)
NoError == "None"

\* a handler that learns whatever merge returned
app_update_metadata_always_learns(rws, nid, clock, image_path, new_metadata, wok, oks) ==
    IF image_path \notin Files
    THEN [rows |-> rws, nextId |-> nid, calls |-> <<>>,
          ret |-> [status |-> 404, success |-> FALSE, error |-> "Image not found"]]
    ELSE LET m == update_metadata(image_path, new_metadata, 1, wok)
             l == learn_from_metadata(rws, nid, clock, new_metadata, 1, oks)
         IN [rows |-> l.rows, nextId |-> l.nextId,
             calls |-> m.calls \o <<Ev("merge", 1, "", <<>>, <<>>, m.success)>>
                       \o l.calls \o <<Ev("learn", 1, "", <<>>, <<>>, l.ret)>>,
             ret |-> IF m.success
                     THEN [status |-> 200, success |-> TRUE, error |-> NoError]
                     ELSE [status |-> 500, success |-> FALSE,
                           error |-> "Failed to update metadata"]]

\* PUT /api/metadata/<path>: update_metadata
app_update_metadata(rws, nid, clock, image_path, new_metadata, wok, oks) ==
    IF image_path \notin Files
    THEN [rows |-> rws, nextId |-> nid, calls |-> <<>>,
          ret |-> [status |-> 404, success |-> FALSE, error |-> "Image not found"]]
    ELSE LET m == update_metadata(image_path, new_metadata, 1, wok)
             mcalls == m.calls \o <<Ev("merge", 1, "", <<>>, <<>>, m.success)>>
         IN IF m.success
            THEN LET l == learn_from_metadata(rws, nid, clock, new_metadata, 1, oks)
                 IN [rows |-> l.rows, nextId |-> l.nextId,
                     calls |-> mcalls \o l.calls \o <<Ev("learn", 1, "", <<>>, <<>>, l.ret)>>,
                     ret |-> [status |-> 200, success |-> TRUE, error |-> NoError]]
            ELSE [rows |-> rws, nextId |-> nid, calls |-> mcalls,
                  ret |-> [status |-> 500, success |-> FALSE,
                           error |-> "Failed to update metadata"]]

\* one entry of the list "updates": a dict that has or lacks 'path' and 'metadata'
Update(path, metadata) ==
    [has_path |-> TRUE, path |-> path, has_metadata |-> TRUE, metadata |-> metadata]
NoPath == [name |-> "", suffix |-> ""]
UpdateLackingPath(metadata) ==
    [has_path |-> FALSE, path |-> NoPath, has_metadata |-> TRUE, metadata |-> metadata]
UpdateLackingMetadata(path) ==
    [has_path |-> TRUE, path |-> path, has_metadata |-> FALSE, metadata |-> <<>>]

\* a count of all results
CountSuccessful_counts_all(results) == Len(results)

\* len([r for r in results if r['success']])
CountSuccessful(results) == Len(SelectSeq(results, LAMBDA r : r.success))

\* lines 186-205: the loop over the updates.  update['path'] and
\* update['metadata'] are read before the inner try, so a lacking key raises
\* KeyError out of the loop (raised); update_metadata and learn_from_metadata
\* catch every exception themselves, so the inner except is never entered.
RECURSIVE BatchLoop(_, _, _, _, _, _)
BatchLoop(updates, i, clock, wok, oks, st) ==
    IF i > Len(updates) THEN st
    ELSE LET u == updates[i] IN
         IF ~u.has_path \/ ~u.has_metadata THEN [st EXCEPT !.raised = TRUE]
         ELSE LET m == update_metadata(u.path, u.metadata, i, wok)
                  mcalls == m.calls \o <<Ev("merge", i, "", <<>>, <<>>, m.success)>>
                  result == [path |-> u.path, success |-> m.success,
                             error |-> IF m.success THEN NoError ELSE "Failed to update"]
              IN IF m.success
                 THEN LET l == learn_from_metadata(st.rows, st.nextId, clock,
                                                   u.metadata, i, oks)
                      IN BatchLoop(updates, i + 1, clock, wok, oks,
                            [rows |-> l.rows, nextId |-> l.nextId,
                             results |-> Append(st.results, result),
                             calls |-> st.calls \o mcalls \o l.calls
                                       \o <<Ev("learn", i, "", <<>>, <<>>, l.ret)>>,
                             raised |-> FALSE])
                 ELSE BatchLoop(updates, i + 1, clock, wok, oks,
                            [st EXCEPT !.results = Append(st.results, result),
                                       !.calls = st.calls \o mcalls])

\* POST /api/batch/update: batch_update
app_batch_update(rws, nid, clock, updates, wok, oks) ==
    LET st == BatchLoop(updates, 1, clock, wok, oks,
                        [rows |-> rws, nextId |-> nid, results |-> <<>>,
                         calls |-> <<>>, raised |-> FALSE])
    IN [rows |-> st.rows, nextId |-> st.nextId, calls |-> st.calls,
        ret |-> IF st.raised
                THEN [status |-> 500, error |-> "KeyError", results |-> <<>>,
                      total |-> 0, successful |-> 0]
                ELSE [status |-> 200, error |-> NoError, results |-> st.results,
                      total |-> Len(st.results),
                      successful |-> CountSuccessful(st.results)]]

(***************************************************************************)
(* History of successful save_metadata_value calls (not program state):    *)
(* for each pair, how many calls returned True and the time of the last.   *)
(***************************************************************************)
Pair(field_name, field_value) == <<field_name, field_value>>

NoteSaved(sv, field_name, field_value, clock) ==
    LET p == Pair(field_name, field_value) IN
    IF p \in DOMAIN sv
    THEN [sv EXCEPT ![p] = [n |-> sv[p].n + 1, at |-> clock]]
    ELSE (p :> [n |-> 1, at |-> clock]) @@ sv

(***************************************************************************)
(* Initial state: an empty database (init_database), no request handled.   *)
(***************************************************************************)
Empty == <<>>
Workers == 1..NumWorkers
NoCall == [field_name |-> <<>>, field_value |-> <<>>, result |-> NoRow]

\* the preference keys written and read, and the record of the last value
\* that save_user_preference stored successfully under each key
PreferenceKeys == {<<"k">>, <<"j">>}
NotSet == [set |-> FALSE, value |-> PyNone]
WasSet(value) == [set |-> TRUE, value |-> value]

\* LearningEngine.__init__: self.user_preferences = {}, the engine's cache
NotCached == [cached |-> FALSE, value |-> PyNone]
Cached(value) == [cached |-> TRUE, value |-> value]

\* the folder paths accessed
FolderPaths == {<<"/", "a">>, <<"/", "b">>}

\* LearningEngine.__init__: self.field_patterns = defaultdict(list); a field
\* without history has the empty list
PatternFields == {Artist, Flash}

Init ==
    /\ rows = {}
    /\ nextId = 1
    /\ now = 0
    /\ saved = Empty
    /\ op = "idle"
    /\ arg = Empty
    /\ ret = Empty
    /\ calls = <<>>
    /\ pc = [w \in Workers |-> "idle"]
    /\ local = [w \in Workers |-> NoCall]
    /\ user_preferences = {}
    /\ preference_set = [k \in PreferenceKeys |-> NotSet]
    /\ engine_user_preferences = [k \in PreferenceKeys |-> NotCached]
    /\ preference_saves = {}
    /\ recent_folders = {}
    /\ folder_accesses = [p \in FolderPaths |-> 0]
    /\ field_patterns = [f \in PatternFields |-> <<>>]

\* the clock advances (between the statements of the handlers, which run
\* without interleaving here)
Tick ==
    /\ op = "idle"
    /\ now < MaxTime
    /\ now' = now + 1
    /\ UNCHANGED <<rows, nextId, saved, op, arg, ret, calls, pc, local, user_preferences, preference_set,
                   engine_user_preferences, preference_saves, recent_folders, folder_accesses, field_patterns>>

StoreFields == {Artist, Flash}
StorePairs == {<<Artist, <<"a">>>>, <<Artist, <<"b">>>>, <<Flash, <<"7">>>>}

CountsBounded(rws) == \A r \in rws : r.usage_count <= MaxCount

\* the operation in progress returns to its caller: its arguments, its result
\* and the trace of its calls are dropped
Respond ==
    /\ op # "idle"
    /\ op' = "idle"
    /\ arg' = Empty
    /\ ret' = Empty
    /\ calls' = <<>>
    /\ UNCHANGED <<rows, nextId, now, saved, pc, local, user_preferences, preference_set,
                   engine_user_preferences, preference_saves, recent_folders, folder_accesses, field_patterns>>

\* one call of Database.save_metadata_value
SaveMetadataValue(field_name, field_value, ok) ==
    LET out == save_metadata_value(rows, nextId, now, field_name, field_value, ok) IN
    /\ op = "idle"
    /\ CountsBounded(out.rows)
    /\ rows' = out.rows
    /\ nextId' = out.nextId
    /\ saved' = IF out.ret THEN NoteSaved(saved, field_name, field_value, now) ELSE saved
    /\ op' = "save_metadata_value"
    /\ arg' = [field_name |-> field_name, field_value |-> field_value, ok |-> ok]
    /\ ret' = PyBool(out.ret)
    /\ UNCHANGED <<now, calls, pc, local, user_preferences, preference_set,
                   engine_user_preferences, preference_saves, recent_folders, folder_accesses, field_patterns>>

\* one call of Database.get_field_suggestions
GetFieldSuggestions(field_name, limit, ok) ==
    /\ op = "idle"
    /\ \E l \in get_field_suggestions(rows, field_name, limit, ok) : ret' = l
    /\ op' = "get_field_suggestions"
    /\ arg' = [field_name |-> field_name, limit |-> limit, ok |-> ok]
    /\ UNCHANGED <<rows, nextId, now, saved, calls, pc, local, user_preferences, preference_set,
                   engine_user_preferences, preference_saves, recent_folders, folder_accesses, field_patterns>>

(***************************************************************************)
(* Database.get_all_suggestions, LearningEngine.get_popular_values and     *)
(* LearningEngine.get_recent_values.  The clock counts half days.          *)
(***************************************************************************)
\* the characters of the field names, in the order of their codes
Ascii ==
    <<" ", "-", "0", "1", "2", "3", "4", "5", "6", "7", "8", "9",
      "A", "B", "C", "D", "E", "F", "G", "H", "I", "J", "K", "L", "M",
      "N", "O", "P", "Q", "R", "S", "T", "U", "V", "W", "X", "Y", "Z",
      "a", "b", "c", "d", "e", "f", "g", "h", "i", "j", "k", "l", "m",
      "n", "o", "p", "q", "r", "s", "t", "u", "v", "w", "x", "y", "z">>
Ord(c) == CHOOSE i \in 1..Len(Ascii) : Ascii[i] = c

\* a < b for two strings (the BINARY collation of ORDER BY field_name)
RECURSIVE StrLess(_, _)
StrLess(a, b) ==
    IF b = <<>> THEN FALSE
    ELSE IF a = <<>> THEN TRUE
    ELSE IF Head(a) = Head(b) THEN StrLess(Tail(a), Tail(b))
    ELSE Ord(Head(a)) < Ord(Head(b))

\* ORDER BY field_name, usage_count DESC, last_used DESC: a may stand before b
AllOrder(a, b) ==
    \/ StrLess(a.field_name, b.field_name)
    \/ a.field_name = b.field_name /\ SuggestionOrder(a, b)

ValueEntry(r) ==
    [field |-> r.field_name, value |-> r.field_value,
     usage_count |-> r.usage_count, last_used |-> r.last_used]

\* Database.get_all_suggestions, read in the order the dict is iterated in
\* (the order of insertion, which is the order of the query): the lists of
\* (field, suggestion) it can return; on a failure the dict is empty
get_all_suggestions(rws, ok) ==
    IF ~ok THEN {<<>>}
    ELSE {[i \in 1..Cardinality(rws) |-> ValueEntry(s[i])] :
            s \in {t \in [1..Cardinality(rws) -> rws] :
                     /\ \A i, j \in 1..Cardinality(rws) : i # j => t[i] # t[j]
                     /\ \A i, j \in 1..Cardinality(rws) : i < j => AllOrder(t[i], t[j])}}

\* tuples as Python compares them: by the first item in which they differ
RECURSIVE TupleLess(_, _)
TupleLess(a, b) ==
    IF a = <<>> THEN b # <<>>
    ELSE IF b = <<>> THEN FALSE
    ELSE IF Head(a) = Head(b) THEN TupleLess(Tail(a), Tail(b))
    ELSE Head(a) < Head(b)

\* list.sort(key=..., reverse=True): entries with equal keys keep their order;
\* keys[i] is the key of l[i]
SortReverse(l, keys) ==
    LET RECURSIVE sorted(_)
        \* the first k entries of l, sorted: entry k goes behind the entries
        \* whose key is not less than its own
        sorted(k) ==
            IF k = 0 THEN <<>>
            ELSE LET rest == sorted(k - 1)
                     n == Cardinality({i \in 1..Len(rest) :
                                         ~TupleLess(keys[rest[i]], keys[k])})
                 IN SubSeq(rest, 1, n) \o <<k>> \o SubSeq(rest, n + 1, Len(rest))
    IN [i \in 1..Len(l) |-> l[sorted(Len(l))[i]]]

\* l[:limit]
PySlice(l, limit) ==
    IF limit >= 0 THEN SubSeq(l, 1, IF limit < Len(l) THEN limit ELSE Len(l))
    ELSE SubSeq(l, 1, IF Len(l) + limit > 0 THEN Len(l) + limit ELSE 0)

\* a key of last_used alone
PopularKey_recency_only(x) == <<x.last_used>>

\* key=lambda x: (x['usage_count'], x['last_used'])
PopularKey(x) == <<x.usage_count, x.last_used>>

\* LearningEngine.get_popular_values: the lists it can return
get_popular_values(rws, limit, ok) ==
    {PySlice(SortReverse(all_values, [i \in 1..Len(all_values) |-> PopularKey(all_values[i])]),
             limit) :
        all_values \in get_all_suggestions(rws, ok)}

\* datetime.now(): the local time, which is the clock (CURRENT_TIMESTAMP is
\* UTC) plus the offset of the local zone
LocalNow(clock, tz) == clock + tz

\* timedelta(days=days), in half days
Timedelta(days) == 2 * days

\* datetime.fromisoformat(text): the time a text written by CURRENT_TIMESTAMP
\* stands for, with no zone; any other text raises
fromisoformat(last_used) ==
    IF last_used \in Nat THEN [ok |-> TRUE, time |-> last_used]
    ELSE [ok |-> FALSE, time |-> 0]

\* lines 211-221: the entry is kept if its last_used parses and is not before
\* the cutoff
RecentKept(entry, cutoff_date) ==
    LET parsed == fromisoformat(entry.last_used)
    IN parsed.ok /\ parsed.time >= cutoff_date

\* key=lambda x: x['last_used']
RecentKey(x) == <<x.last_used>>

\* LearningEngine.get_recent_values: the lists it can return
get_recent_values(rws, clock, tz, days, limit, ok) ==
    LET cutoff_date == LocalNow(clock, tz) - Timedelta(days)
        recent(all_values) == SelectSeq(all_values, LAMBDA e : RecentKept(e, cutoff_date))
    IN {PySlice(SortReverse(recent(all_values),
                            [i \in 1..Len(recent(all_values)) |->
                                RecentKey(recent(all_values)[i])]), limit) :
           all_values \in get_all_suggestions(rws, ok)}

\* one call of LearningEngine.get_popular_values
GetPopularValues(limit, ok) ==
    /\ op = "idle"
    /\ \E l \in get_popular_values(rows, limit, ok) : ret' = l
    /\ op' = "get_popular_values"
    /\ arg' = [limit |-> limit, ok |-> ok]
    /\ UNCHANGED <<rows, nextId, now, saved, calls, pc, local, user_preferences, preference_set,
                   engine_user_preferences, preference_saves, recent_folders, folder_accesses, field_patterns>>

\* the offsets of the local zone: 12 hours behind UTC, UTC, 12 hours ahead
TzOffsets == {-1, 0, 1}
Days == {0, 1}

\* one call of LearningEngine.get_recent_values
GetRecentValues(days, limit, tz, ok) ==
    /\ op = "idle"
    /\ \E l \in get_recent_values(rows, now, tz, days, limit, ok) : ret' = l
    /\ op' = "get_recent_values"
    /\ arg' = [days |-> days, limit |-> limit, tz |-> tz, ok |-> ok]
    /\ UNCHANGED <<rows, nextId, now, saved, calls, pc, local, user_preferences, preference_set,
                   engine_user_preferences, preference_saves, recent_folders, folder_accesses, field_patterns>>

Next ==
    \/ Tick
    \/ Respond
    \/ op = "idle" /\ \E p \in StorePairs, ok \in BOOLEAN :
          SaveMetadataValue(p[1], p[2], ok)
    \/ op = "idle" /\ \E f \in StoreFields, l \in 0..MaxLimit, ok \in BOOLEAN :
          GetFieldSuggestions(f, l, ok)
    \/ op = "idle" /\ \E l \in 0..MaxLimit, ok \in BOOLEAN : GetPopularValues(l, ok)
    \/ op = "idle" /\ \E d \in Days, l \in 0..MaxLimit, tz \in TzOffsets, ok \in BOOLEAN :
          GetRecentValues(d, l, tz, ok)

Spec == Init /\ [][Next]_vars

(***************************************************************************)
(* Concurrent request threads inside Database.save_metadata_value: each    *)
(* call opens its own connection; the SELECT runs outside any transaction  *)
(* and the UPDATE / INSERT with its commit is a second step.               *)
(***************************************************************************)
\* lines 66-75: connect and SELECT; ok = FALSE: the storage raised, the call
\* returns False
SaveSelect(w, field_name, field_value, ok) ==
    /\ pc[w] = "idle"
    /\ IF ok
       THEN /\ pc' = [pc EXCEPT ![w] = "selected"]
            /\ local' = [local EXCEPT ![w] =
                            [field_name |-> field_name, field_value |-> field_value,
                             result |-> SelectRow(rows, field_name, field_value)]]
       ELSE UNCHANGED <<pc, local>>
    /\ UNCHANGED <<rows, nextId, now, saved, op, arg, ret, calls, user_preferences, preference_set,
                   engine_user_preferences, preference_saves, recent_folders, folder_accesses, field_patterns>>

\* lines 77-93: UPDATE or INSERT, commit, return True; ok = FALSE: the storage
\* raised, nothing is committed, the call returns False
SaveCommit(w, ok) ==
    /\ pc[w] = "selected"
    /\ LET c == local[w]
           out == SaveWriteRows(rows, nextId, now, c.field_name, c.field_value, c.result)
       IN IF ok
          THEN /\ CountsBounded(out.rows)
               /\ rows' = out.rows
               /\ nextId' = out.nextId
               /\ saved' = NoteSaved(saved, c.field_name, c.field_value, now)
          ELSE UNCHANGED <<rows, nextId, saved>>
    /\ pc' = [pc EXCEPT ![w] = "idle"]
    /\ local' = [local EXCEPT ![w] = NoCall]
    /\ UNCHANGED <<now, op, arg, ret, calls, user_preferences, preference_set,
                   engine_user_preferences, preference_saves, recent_folders, folder_accesses, field_patterns>>

ConcPairs == {<<Artist, <<"a">>>>, <<Flash, <<"7">>>>}

NextConc ==
    \/ Tick
    \/ \E w \in Workers, p \in ConcPairs, ok \in BOOLEAN : SaveSelect(w, p[1], p[2], ok)
    \/ \E w \in Workers, ok \in BOOLEAN : SaveCommit(w, ok)

SpecConc == Init /\ [][NextConc]_vars

(***************************************************************************)
(* The requests of the model.                                              *)
(***************************************************************************)
Paths == {Img, Doc, Gone}

\* the values a field takes: Artist a string, Flash a number or a boolean
FieldValues(name) ==
    IF name = Artist
    THEN {PyS(<<>>), PyS(<<" ">>), PyS(<<" ", "a">>)}
    ELSE {PyInt(0), PyInt(7), PyBool(FALSE)}

FieldChoices == UNION {{Field(n, v) : v \in FieldValues(n)} : n \in {Artist, Flash}}

\* the field lists of a section: keys are unique
FieldSeqs ==
    {<<>>} \cup {<<f>> : f \in FieldChoices}
           \cup {p \in FieldChoices \X FieldChoices : p[1].name # p[2].name}

AbsentSection == [section |-> "", mapping |-> FALSE, fields |-> <<>>]

SectionChoices(name) ==
    {AbsentSection, NotAMapping(name)} \cup {Section(name, fs) : fs \in FieldSeqs}

RecordOf(e, i, x) ==
    (IF e = AbsentSection THEN <<>> ELSE <<e>>)
    \o (IF i = AbsentSection THEN <<>> ELSE <<i>>)
    \o (IF x = AbsentSection THEN <<>> ELSE <<x>>)

\* the records with at most MaxFields fields in the sections EXIF and IPTC and
\* with no XMP section, one that is no mapping, or an empty one
Records ==
    {RecordOf(t[1], t[2], t[3]) : t \in
        {t \in SectionChoices("EXIF") \X SectionChoices("IPTC")
                \X {AbsentSection, NotAMapping("XMP"), Section("XMP", <<>>)} :
            Len(t[1].fields) + Len(t[2].fields) <= MaxFields}}

RecA == <<Section("EXIF", <<Field(Artist, PyS(<<" ", "a">>))>>)>>

BatchEntries ==
    {Update(Img, RecA), Update(Gone, RecA), Update(Doc, RecA),
     UpdateLackingPath(RecA), UpdateLackingMetadata(Img)}

Batches == UNION {[1..n -> BatchEntries] : n \in 0..MaxBatch}

\* the write-path calls a request can make, and the outcomes they can have
WriteSlots(updates) ==
    {<<i, MergeSections[j]>> : i \in 1..Len(updates), j \in 1..Len(MergeSections)}
WriteOutcomes(updates) ==
    [{sl \in WriteSlots(updates) :
        /\ updates[sl[1]].has_path /\ updates[sl[1]].has_metadata
        /\ updates[sl[1]].path \in Files
        /\ updates[sl[1]].path.suffix \in supported_formats
        /\ HasKey(updates[sl[1]].metadata, sl[2])} -> BOOLEAN]

\* the save_metadata_value calls a request can make, and their outcomes
SaveSlots(updates) ==
    {<<i, k>> : i \in 1..Len(updates), k \in 1..MaxFields}
SaveOutcomes(updates) ==
    [{sl \in SaveSlots(updates) :
        /\ updates[sl[1]].has_path /\ updates[sl[1]].has_metadata
        /\ updates[sl[1]].path \in Files
        /\ updates[sl[1]].path.suffix \in supported_formats
        /\ sl[2] <= NumLearnCalls(updates[sl[1]].metadata)} -> BOOLEAN]

(***************************************************************************)
(* LearningEngine._update_field_patterns.                                  *)
(***************************************************************************)
Uppercase ==
    <<"A", "B", "C", "D", "E", "F", "G", "H", "I", "J", "K", "L", "M",
      "N", "O", "P", "Q", "R", "S", "T", "U", "V", "W", "X", "Y", "Z">>
Lowercase ==
    <<"a", "b", "c", "d", "e", "f", "g", "h", "i", "j", "k", "l", "m",
      "n", "o", "p", "q", "r", "s", "t", "u", "v", "w", "x", "y", "z">>

\* str.lower(), for ASCII text
PyLower(s) ==
    [i \in 1..Len(s) |->
        IF \E k \in 1..Len(Uppercase) : Uppercase[k] = s[i]
        THEN Lowercase[CHOOSE k \in 1..Len(Uppercase) : Uppercase[k] = s[i]]
        ELSE s[i]]

location_keywords ==
    <<<<"s", "t", "r", "e", "e", "t">>, <<"a", "v", "e", "n", "u", "e">>,
      <<"r", "o", "a", "d">>, <<"l", "a", "n", "e">>, <<"c", "i", "t", "y">>,
      <<"c", "o", "u", "n", "t", "r", "y">>, <<"s", "t", "a", "t", "e">>>>
name_keywords ==
    <<<<"m", "r">>, <<"m", "r", "s">>, <<"m", "s">>, <<"d", "r">>,
      <<"p", "r", "o", "f">>>>

\* any(keyword in value_str for keyword in keywords)
AnyKeywordIn(keywords, value_str) ==
    \E k \in 1..Len(keywords) : Contains(keywords[k], value_str)

\* len(value_str) >= 8
DateLength == 8

\* a date rule that asks for more than 8 characters
Patterns_date_longer(field_value) ==
    LET value_str == PyStrip(PyLower(PyStr(field_value))) IN
    (IF Contains(<<"@">>, value_str) /\ Contains(<<".">>, value_str)
     THEN <<"email">> ELSE <<>>)
    \o (IF (\E i \in 1..Len(value_str) : IsDigit(value_str[i]))
           /\ Len(value_str) > DateLength
        THEN <<"date">> ELSE <<>>)
    \o (IF AnyKeywordIn(location_keywords, value_str) THEN <<"location">> ELSE <<>>)
    \o (IF AnyKeywordIn(name_keywords, value_str) THEN <<"name">> ELSE <<>>)

\* lines 38-59: the list "patterns" built for one value
Patterns(field_value) ==
    LET value_str == PyStrip(PyLower(PyStr(field_value))) IN
    (IF Contains(<<"@">>, value_str) /\ Contains(<<".">>, value_str)
     THEN <<"email">> ELSE <<>>)
    \o (IF (\E i \in 1..Len(value_str) : IsDigit(value_str[i]))
           /\ Len(value_str) >= DateLength
        THEN <<"date">> ELSE <<>>)
    \o (IF AnyKeywordIn(location_keywords, value_str) THEN <<"location">> ELSE <<>>)
    \o (IF AnyKeywordIn(name_keywords, value_str) THEN <<"name">> ELSE <<>>)

\* self.field_patterns[field_name], a defaultdict(list)
HistoryOf(patterns, field_name) ==
    IF field_name \in DOMAIN patterns THEN patterns[field_name] ELSE <<>>

\* LearningEngine._update_field_patterns: every pattern of the value is
\* appended to the list of the field
update_field_patterns(patterns, field_name, field_value) ==
    IF Patterns(field_value) = <<>> THEN patterns
    ELSE IF field_name \in DOMAIN patterns
    THEN [patterns EXCEPT ![field_name] = @ \o Patterns(field_value)]
    ELSE (field_name :> Patterns(field_value)) @@ patterns

\* the calls of _update_field_patterns that learn_from_metadata makes, one
\* after each save_metadata_value (the value and its string form have the
\* same patterns)
RECURSIVE NotePatternsAll(_, _)
NotePatternsAll(patterns, trace) ==
    IF trace = <<>> THEN patterns
    ELSE NotePatternsAll(IF Head(trace).call = "save"
                         THEN update_field_patterns(patterns, Head(trace).name,
                                                    PyS(Head(trace).value))
                         ELSE patterns,
                         Tail(trace))

RECURSIVE NoteSavedAll(_, _, _)
NoteSavedAll(sv, trace, clock) ==
    IF trace = <<>> THEN sv
    ELSE NoteSavedAll(IF Head(trace).call = "save" /\ Head(trace).ret
                      THEN NoteSaved(sv, Head(trace).name, Head(trace).value, clock)
                      ELSE sv,
                      Tail(trace), clock)

\* one update_metadata request
UpdateMetadata(image_path, new_metadata, wok, oks) ==
    /\ op = "idle"
    /\ \E out \in {app_update_metadata(rows, nextId, now, image_path, new_metadata, wok, oks)} :
          /\ CountsBounded(out.rows)
          /\ rows' = out.rows
          /\ nextId' = out.nextId
          /\ saved' = NoteSavedAll(saved, out.calls, now)
          /\ ret' = out.ret
          /\ calls' = out.calls
          /\ field_patterns' = NotePatternsAll(field_patterns, out.calls)
    /\ op' = "update_metadata"
    /\ arg' = [path |-> image_path, metadata |-> new_metadata]
    /\ UNCHANGED <<now, pc, local, user_preferences, preference_set,
                   engine_user_preferences, preference_saves, recent_folders, folder_accesses>>

\* one batch_update request
BatchUpdate(updates, wok, oks) ==
    /\ op = "idle"
    /\ \E out \in {app_batch_update(rows, nextId, now, updates, wok, oks)} :
          /\ CountsBounded(out.rows)
          /\ rows' = out.rows
          /\ nextId' = out.nextId
          /\ saved' = NoteSavedAll(saved, out.calls, now)
          /\ ret' = out.ret
          /\ calls' = out.calls
          /\ field_patterns' = NotePatternsAll(field_patterns, out.calls)
    /\ op' = "batch_update"
    /\ arg' = updates
    /\ UNCHANGED <<now, pc, local, user_preferences, preference_set,
                   engine_user_preferences, preference_saves, recent_folders, folder_accesses>>

\* the records validate_metadata is applied to: field names that are empty or
\* blank, sections that are no mapping
ValidateNames == {Artist, <<>>, <<" ", " ">>}
ValidateFieldSeqs ==
    {<<>>} \cup {<<Field(n, PyS(<<"x">>))>> : n \in ValidateNames}
           \cup {<<Field(t[1], PyS(<<"x">>)), Field(t[2], PyS(<<"x">>))>> :
                   t \in {u \in ValidateNames \X ValidateNames : u[1] # u[2]}}
ValidateSectionChoices(name) ==
    {AbsentSection, NotAMapping(name)} \cup {Section(name, fs) : fs \in ValidateFieldSeqs}
ValidateRecords ==
    {RecordOf(t[1], t[2], AbsentSection) :
        t \in ValidateSectionChoices("EXIF") \X ValidateSectionChoices("Custom")}

\* one call of MetadataHandler.validate_metadata
ValidateMetadata(metadata) ==
    /\ op = "idle"
    /\ op' = "validate_metadata"
    /\ arg' = metadata
    /\ ret' = validate_metadata(metadata)
    /\ UNCHANGED <<rows, nextId, now, saved, calls, pc, local, user_preferences, preference_set,
                   engine_user_preferences, preference_saves, recent_folders, folder_accesses, field_patterns>>


(***************************************************************************)
(* LearningEngine.get_suggestions and its contextual rules.                *)
(***************************************************************************)
Make == <<"M", "a", "k", "e">>
Model == <<"M", "o", "d", "e", "l">>
Software == <<"S", "o", "f", "t", "w", "a", "r", "e">>
ExposureTime == <<"E", "x", "p", "o", "s", "u", "r", "e", "T", "i", "m", "e">>
FNumber == <<"F", "N", "u", "m", "b", "e", "r">>
GPSLatitude == <<"G", "P", "S", "L", "a", "t", "i", "t", "u", "d", "e">>
GPSLongitude == <<"G", "P", "S", "L", "o", "n", "g", "i", "t", "u", "d", "e">>
GPSAltitude == <<"G", "P", "S", "A", "l", "t", "i", "t", "u", "d", "e">>
Copyright == <<"C", "o", "p", "y", "r", "i", "g", "h", "t">>
ByLine == <<"B", "y", "L", "i", "n", "e">>
Location == <<"L", "o", "c", "a", "t", "i", "o", "n">>

\* x in <list>
\* the section value that is no mapping is the string "not-a-map"
NotAMapText == <<"n", "o", "t", "-", "a", "-", "m", "a", "p">>

\* line 80: if field_value and str(field_value).strip()
SuggestGuard(field_value) ==
    PyTruthy(field_value) /\ PyStrip(PyStr(field_value)) # <<>>

\* lines 146-159: the pattern lists a field name is appended to
NoPatterns ==
    [camera_info |-> <<>>, location_info |-> <<>>, author_info |-> <<>>, date_info |-> <<>>]

AppendIf(cond, l, x) == IF cond THEN Append(l, x) ELSE l

\* lines 141-159: the loop over the fields; a field whose value is falsy is
\* skipped
RECURSIVE AnalyzeFields(_, _)
AnalyzeFields(fields, patterns) ==
    IF fields = <<>> THEN patterns
    ELSE LET n == Head(fields).name IN
         IF ~PyTruthy(Head(fields).value) THEN AnalyzeFields(Tail(fields), patterns)
         ELSE AnalyzeFields(Tail(fields),
                [camera_info |->
                    AppendIf(n \in {Make, Model, Software, ExposureTime, FNumber},
                             patterns.camera_info, n),
                 location_info |->
                    AppendIf(n \in {GPSLatitude, GPSLongitude, GPSAltitude},
                             patterns.location_info, n),
                 author_info |->
                    AppendIf(n \in {Artist, Copyright, ByLine}, patterns.author_info, n),
                 date_info |->
                    AppendIf(Contains(<<"D", "a", "t", "e">>, n)
                                \/ Contains(<<"T", "i", "m", "e">>, n),
                             patterns.date_info, n)])

\* LearningEngine._analyze_metadata_patterns (a pattern of the defaultdict that
\* was never appended to is the empty list here)
analyze_metadata_patterns(metadata) == AnalyzeFields(FlattenFields(metadata), NoPatterns)

\* name not in current_metadata.get(section, {})
NotInSection(name, metadata, section) ==
    IF ~HasKey(metadata, section) THEN TRUE
    ELSE LET s == metadata[CHOOSE i \in 1..Len(metadata) : metadata[i].section = section]
         IN IF s.mapping THEN \A i \in 1..Len(s.fields) : s.fields[i].name # name
            ELSE ~Contains(name, NotAMapText)

PerFieldLimit == 5
ContextualLimit == 3

\* the dicts {field: self.db.get_field_suggestions(field, limit)} over the
\* fields of `names` whose list is not empty (`if suggestions:`)
RECURSIVE QueryMaps(_, _, _, _)
QueryMaps(rws, names, limit, ok) ==
    IF names = {} THEN {<<>>}
    ELSE LET n == CHOOSE x \in names : TRUE
             rest == QueryMaps(rws, names \ {n}, limit, ok)
         IN UNION {IF l = <<>> THEN rest ELSE {(n :> l) @@ m : m \in rest} :
                      l \in get_field_suggestions(rws, n, limit, ok)}

\* lines 104-124: the fields the contextual rules query
ContextualTargets(patterns, metadata) ==
    (IF InList(Make, patterns.camera_info) /\ NotInSection(Model, metadata, "EXIF")
     THEN {Model} ELSE {})
    \cup (IF InList(GPSLatitude, patterns.location_info)
             /\ InList(GPSLongitude, patterns.location_info)
          THEN {Location} ELSE {})
    \cup (IF InList(Artist, patterns.author_info)
             /\ NotInSection(Copyright, metadata, "EXIF")
          THEN {Copyright} ELSE {})

\* LearningEngine._get_contextual_suggestions: the dicts it can return
get_contextual_suggestions(rws, metadata, ok) ==
    QueryMaps(rws, ContextualTargets(analyze_metadata_patterns(metadata), metadata),
              ContextualLimit, ok)

\* lines 75-83: the fields the per-field loop queries
PerFieldNames(metadata) ==
    {f.name : f \in {FlattenFields(metadata)[i] : i \in 1..Len(FlattenFields(metadata))}
              \cap {g \in {FlattenFields(metadata)[i] : i \in 1..Len(FlattenFields(metadata))} :
                       SuggestGuard(g.value)}}

\* a merge in which the per-field lists overwrite the contextual ones
DictUpdate_keeps_existing(suggestions, contextual_suggestions) ==
    suggestions @@ contextual_suggestions

\* suggestions.update(contextual_suggestions)
DictUpdate(suggestions, contextual_suggestions) ==
    contextual_suggestions @@ suggestions

\* LearningEngine.get_suggestions: the dicts it can return, each with the dict
\* `suggestions` of the per-field loop and the dict `contextual_suggestions`
\* it was made of
get_suggestions(rws, current_metadata, ok) ==
    {[ret |-> DictUpdate(s, c), suggestions |-> s, contextual_suggestions |-> c] :
        s \in QueryMaps(rws, PerFieldNames(current_metadata), PerFieldLimit, ok),
        c \in get_contextual_suggestions(rws, current_metadata, ok)}

\* the store the suggestions are drawn from: each pair is recorded once, in
\* the order of EnginePairs (a pair may be left out, a value of Model only
\* together with the values that follow it)
EnginePairs ==
    <<(<<Model, <<"1">>>>), (<<Model, <<"2">>>>), (<<Model, <<"3">>>>), (<<Model, <<"4">>>>),
      (<<Location, <<"x">>>>), (<<Copyright, <<"c">>>>), (<<GPSLatitude, <<"5">>>>)>>

FirstUse(rws, k) ==
    /\ \A j \in k..Len(EnginePairs) :
          Matching(rws, EnginePairs[j][1], EnginePairs[j][2]) = {}
    /\ (k > 1 /\ EnginePairs[k][1] = EnginePairs[k - 1][1]) =>
          Matching(rws, EnginePairs[k - 1][1], EnginePairs[k - 1][2]) # {}

\* the records suggestions are asked for: an EXIF section with fields among
\* EngineNames, each empty (or 0) or populated, and a second section
EngineNames == <<Make, Model, Artist, Copyright, GPSLatitude, GPSLongitude>>
NoField == PyNone
EngineValues(i) ==
    CASE EngineNames[i] = Make -> {PyS(<<>>), PyS(<<"C", "a", "n", "o", "n">>)}
      [] EngineNames[i] = Model -> {PyS(<<>>), PyS(<<"X">>)}
      [] EngineNames[i] = Artist -> {PyS(<<>>), PyS(<<"a">>)}
      [] EngineNames[i] = Copyright -> {PyS(<<>>), PyS(<<"c">>)}
      [] OTHER -> {PyInt(0), PyInt(5)}

RECURSIVE FieldsOf(_, _)
FieldsOf(a, i) ==
    IF i > Len(EngineNames) THEN <<>>
    ELSE (IF a[i] = NoField THEN <<>> ELSE <<Field(EngineNames[i], a[i])>>)
         \o FieldsOf(a, i + 1)

EngineExif ==
    {AbsentSection, NotAMapping("EXIF")}
    \cup {Section("EXIF", FieldsOf(a, 1)) :
            a \in {b \in [1..Len(EngineNames) ->
                            {NoField} \cup UNION {EngineValues(i) : i \in 1..Len(EngineNames)}] :
                     /\ \A i \in 1..Len(EngineNames) :
                           b[i] = NoField \/ b[i] \in EngineValues(i)
                     /\ Cardinality({i \in 1..Len(EngineNames) : b[i] # NoField})
                           <= MaxFields}}

EngineIptc ==
    {AbsentSection, NotAMapping("IPTC"),
     Section("IPTC", <<Field(Make, PyS(<<"C", "a", "n", "o", "n">>))>>),
     Section("IPTC", <<Field(Model, PyS(<<"X">>))>>),
     Section("IPTC", <<Field(Copyright, PyS(<<"c">>))>>)}

EngineRecords == {RecordOf(t[1], t[2], AbsentSection) : t \in EngineExif \X EngineIptc}

\* one call of LearningEngine.get_suggestions
GetSuggestions(current_metadata, ok) ==
    /\ op = "idle"
    /\ \E out \in get_suggestions(rows, current_metadata, ok) :
          /\ ret' = out.ret
          /\ calls' = <<[call |-> "per_field", entry |-> 0, result |-> out.suggestions],
                        [call |-> "contextual", entry |-> 0,
                         result |-> out.contextual_suggestions]>>
    /\ op' = "get_suggestions"
    /\ arg' = [metadata |-> current_metadata, ok |-> ok]
    /\ UNCHANGED <<rows, nextId, now, saved, pc, local, user_preferences, preference_set,
                   engine_user_preferences, preference_saves, recent_folders, folder_accesses, field_patterns>>

(***************************************************************************)
(* GET /api/metadata/<path>: the read request.                             *)
(***************************************************************************)
FileName == <<"F", "i", "l", "e", "N", "a", "m", "e">>

\* MetadataHandler._get_basic_metadata: the File section
BasicMetadata(image_path) ==
    <<Section("File", <<Field(FileName, PyS(<<"p">>))>>)>>

\* MetadataHandler.get_metadata: the File section, and the EXIF section the
\* codec reads from a file of a supported format (exif is that section, or
\* empty if the file has none)
get_metadata(image_path, exif) ==
    IF image_path.suffix \notin supported_formats THEN BasicMetadata(image_path)
    ELSE BasicMetadata(image_path) \o exif

\* a read handler that does not look whether the path exists
app_get_metadata_unchecked(rws, image_path, exif, ok) ==
    LET metadata == get_metadata(image_path, exif) IN
    {[calls |-> <<Ev("normalize", 1, "", <<>>, <<>>, metadata),
                  Ev("suggest", 1, "", <<>>, <<>>, s.ret)>>,
      ret |-> [status |-> 200, success |-> TRUE, error |-> NoError]] :
        s \in get_suggestions(rws, metadata, ok)}

\* GET /api/metadata/<path>: get_metadata
app_get_metadata(rws, image_path, exif, ok) ==
    IF image_path \notin Files
    THEN {[calls |-> <<>>,
           ret |-> [status |-> 404, success |-> FALSE, error |-> "Image not found"]]}
    ELSE LET metadata == get_metadata(image_path, exif) IN
         {[calls |-> <<Ev("normalize", 1, "", <<>>, <<>>, metadata),
                       Ev("suggest", 1, "", <<>>, <<>>, s.ret)>>,
           ret |-> [status |-> 200, success |-> TRUE, error |-> NoError]] :
             s \in get_suggestions(rws, metadata, ok)}

\* the EXIF section read from the file: none, or one with an Artist
ExifRead == {<<>>, <<Section("EXIF", <<Field(Artist, PyS(<<"a">>))>>)>>}

\* one get_metadata request
GetMetadata(image_path, exif, ok) ==
    /\ op = "idle"
    /\ \E out \in app_get_metadata(rows, image_path, exif, ok) :
          /\ ret' = out.ret
          /\ calls' = out.calls
    /\ op' = "get_metadata"
    /\ arg' = [path |-> image_path, metadata |-> exif]
    /\ UNCHANGED <<rows, nextId, now, saved, pc, local, user_preferences, preference_set,
                   engine_user_preferences, preference_saves, recent_folders,
                   folder_accesses, field_patterns>>

NextApp ==
    \/ Respond
    \/ op = "idle" /\ \E r \in ValidateRecords : ValidateMetadata(r)
    \/ op = "idle" /\ \E p \in Paths, r \in Records :
         \E wok \in WriteOutcomes(<<Update(p, r)>>), oks \in SaveOutcomes(<<Update(p, r)>>) :
              UpdateMetadata(p, r, wok, oks)
    \/ op = "idle" /\ \E b \in Batches :
         \E wok \in WriteOutcomes(b), oks \in SaveOutcomes(b) : BatchUpdate(b, wok, oks)
    \/ op = "idle" /\ \E p \in Paths, e \in ExifRead, ok \in BOOLEAN : GetMetadata(p, e, ok)

SpecApp == Init /\ [][NextApp]_vars

NextEngine ==
    \/ Respond
    \/ op = "idle" /\ \E k \in 1..Len(EnginePairs) :
          FirstUse(rows, k) /\ SaveMetadataValue(EnginePairs[k][1], EnginePairs[k][2], TRUE)
    \/ op = "idle" /\ \E r \in EngineRecords, ok \in BOOLEAN : GetSuggestions(r, ok)

SpecEngine == Init /\ [][NextEngine]_vars

(***************************************************************************)
(* LearningEngine.get_field_recommendations.                               *)
(***************************************************************************)
ImageDescription ==
    <<"I", "m", "a", "g", "e", "D", "e", "s", "c", "r", "i", "p", "t", "i", "o", "n">>
Title == <<"T", "i", "t", "l", "e">>
Description == <<"D", "e", "s", "c", "r", "i", "p", "t", "i", "o", "n">>
Keywords == <<"K", "e", "y", "w", "o", "r", "d", "s">>
Author == <<"A", "u", "t", "h", "o", "r">>

\* lines 238-241: common_fields, in the order the dict is iterated in
common_fields ==
    <<[section |-> "EXIF", fields |-> <<Artist, Copyright, ImageDescription>>],
      [section |-> "Custom", fields |-> <<Title, Description, Keywords, Author>>]>>

\* a rule that holds Artist alone to be of high priority
Priority_artist_only(field) == IF field = Artist THEN "high" ELSE "medium"

\* 'high' if field in ['Artist', 'Copyright'] else 'medium'
Priority(field) == IF field \in {Artist, Copyright} THEN "high" ELSE "medium"

Recommendation(section, field, priority, reason) ==
    [section |-> section, field |-> field, priority |-> priority, reason |-> reason]

\* f'Missing {field} information'
MissingReason(field) ==
    <<"M", "i", "s", "s", "i", "n", "g", " ">> \o field
    \o <<" ", "i", "n", "f", "o", "r", "m", "a", "t", "i", "o", "n">>

ModelReason == "Camera model information is incomplete"

\* current_metadata.get(section, {}), and what `field in` it and `it[field]`
\* give: a section that is no mapping is a string, `in` is then the substring
\* test and indexing by a string raises TypeError
SectionGet(metadata, section) ==
    IF HasKey(metadata, section)
    THEN metadata[CHOOSE i \in 1..Len(metadata) : metadata[i].section = section]
    ELSE Section(section, <<>>)

FieldIn(field, current_section) ==
    IF current_section.mapping
    THEN \E i \in 1..Len(current_section.fields) : current_section.fields[i].name = field
    ELSE Contains(field, NotAMapText)

FieldValue(current_section, field) ==
    current_section.fields[CHOOSE i \in 1..Len(current_section.fields) :
                              current_section.fields[i].name = field].value

\* line 246: field not in current_section or not current_section[field]
FieldMissing(current_section, field) ==
    IF ~FieldIn(field, current_section) THEN [raised |-> FALSE, missing |-> TRUE]
    ELSE IF ~current_section.mapping THEN [raised |-> TRUE, missing |-> FALSE]
    ELSE [raised |-> FALSE, missing |-> ~PyTruthy(FieldValue(current_section, field))]

\* lines 245-252: the loop over the fields of one section of common_fields
RECURSIVE CheckFields(_, _, _, _)
CheckFields(current_section, section, fields, st) ==
    IF fields = <<>> \/ st.raised THEN st
    ELSE LET m == FieldMissing(current_section, Head(fields)) IN
         CheckFields(current_section, section, Tail(fields),
            IF m.raised THEN [st EXCEPT !.raised = TRUE]
            ELSE IF m.missing
                 THEN [st EXCEPT !.recommendations =
                          Append(@, Recommendation(section, Head(fields),
                                                   Priority(Head(fields)),
                                                   MissingReason(Head(fields))))]
                 ELSE st)

\* lines 243-252: the loop over common_fields
RECURSIVE CheckSections(_, _, _)
CheckSections(metadata, sections, st) ==
    IF sections = <<>> \/ st.raised THEN st
    ELSE CheckSections(metadata, Tail(sections),
            CheckFields(SectionGet(metadata, Head(sections).section),
                        Head(sections).section, Head(sections).fields, st))

\* lines 255-262: 'Make' in exif_data and not exif_data['Make']
CheckCamera(metadata, st) ==
    LET m == FieldMissing(SectionGet(metadata, "EXIF"), Make) IN
    IF st.raised THEN st
    ELSE IF FieldIn(Make, SectionGet(metadata, "EXIF"))
         THEN IF m.raised THEN [st EXCEPT !.raised = TRUE]
              ELSE IF m.missing
                   THEN [st EXCEPT !.recommendations =
                            Append(@, Recommendation("EXIF", Model, "medium", ModelReason))]
                   ELSE st
         ELSE st

\* LearningEngine.get_field_recommendations; the except branch returns []
get_field_recommendations(current_metadata) ==
    LET st == CheckCamera(current_metadata,
                 CheckSections(current_metadata, common_fields,
                               [recommendations |-> <<>>, raised |-> FALSE]))
    IN IF st.raised THEN <<>> ELSE st.recommendations

\* the records recommendations are asked for: each field of the checklist and
\* Make absent, empty or populated (Artist also blank or 0)
RecNames(section) ==
    IF section = "EXIF" THEN <<Artist, Copyright, ImageDescription, Make>>
    ELSE <<Title, Description, Keywords, Author>>
RecValues(name) ==
    {NoField, PyS(<<>>), PyS(<<"x">>)}
    \cup (IF name = Artist THEN {PyS(<<" ">>), PyInt(0)} ELSE {})

RECURSIVE RecFieldsOf(_, _, _)
RecFieldsOf(names, a, i) ==
    IF i > Len(names) THEN <<>>
    ELSE (IF a[i] = NoField THEN <<>> ELSE <<Field(names[i], a[i])>>)
         \o RecFieldsOf(names, a, i + 1)

RecSections(section) ==
    {AbsentSection, NotAMapping(section)}
    \cup {Section(section, RecFieldsOf(RecNames(section), a, 1)) :
            a \in {b \in [1..Len(RecNames(section)) ->
                            UNION {RecValues(RecNames(section)[i]) :
                                      i \in 1..Len(RecNames(section))}] :
                     \A i \in 1..Len(RecNames(section)) :
                        b[i] \in RecValues(RecNames(section)[i])}}

RecRecords ==
    {RecordOf(t[1], t[2], AbsentSection) : t \in RecSections("EXIF") \X RecSections("Custom")}

\* one call of LearningEngine.get_field_recommendations
GetFieldRecommendations(current_metadata) ==
    /\ op = "idle"
    /\ op' = "get_field_recommendations"
    /\ arg' = current_metadata
    /\ ret' = get_field_recommendations(current_metadata)
    /\ UNCHANGED <<rows, nextId, now, saved, calls, pc, local, user_preferences, preference_set,
                   engine_user_preferences, preference_saves, recent_folders, folder_accesses, field_patterns>>

NextRecommend ==
    \/ Respond
    \/ op = "idle" /\ \E r \in RecRecords : GetFieldRecommendations(r)

SpecRecommend == Init /\ [][NextRecommend]_vars

(***************************************************************************)
(* The Usage Store: table user_preferences.                                *)
(***************************************************************************)
\* ', '.join of the str() of the items of a list of ints
RECURSIVE JoinItems(_)
JoinItems(l) ==
    IF l = <<>> THEN <<>>
    ELSE IF Len(l) = 1 THEN PyStr(Head(l))
    ELSE PyStr(Head(l)) \o <<",", " ">> \o JoinItems(Tail(l))

\* json.dumps(value) of a list of ints
JsonDumps(value) == <<"[">> \o JoinItems(value.v) \o <<"]">>

\* json.dumps(value) if isinstance(value, (dict, list)) else str(value)
PreferenceText(value) == IF value.t = "list" THEN JsonDumps(value) ELSE PyStr(value)


RECURSIVE StrToNat(_)
StrToNat(s) ==
    IF s = <<>> THEN 0
    ELSE 10 * StrToNat(SubSeq(s, 1, Len(s) - 1)) + DigitValue(s[Len(s)])

\* a JSON number without fraction or exponent: -? (0 | [1-9][0-9]*)
IsJsonNat(s) ==
    /\ s # <<>>
    /\ \A i \in 1..Len(s) : IsDigit(s[i])
    /\ Len(s) > 1 => s[1] # "0"
IsJsonInt(s) == IsJsonNat(s) \/ (s # <<>> /\ s[1] = "-" /\ IsJsonNat(Tail(s)))
JsonInt(s) == IF s[1] = "-" THEN PyInt(0 - StrToNat(Tail(s))) ELSE PyInt(StrToNat(s))

\* a JSON string without escapes
IsJsonString(s) ==
    /\ Len(s) >= 2
    /\ s[1] = "\"" /\ s[Len(s)] = "\""
    /\ \A i \in 2..(Len(s) - 1) : s[i] \notin {"\"", "\\"}

\* the items of the text between the brackets of a JSON array, cut at commas
RECURSIVE SplitItems(_, _)
SplitItems(s, cur) ==
    IF s = <<>> THEN <<cur>>
    ELSE IF Head(s) = "," THEN <<cur>> \o SplitItems(Tail(s), <<>>)
    ELSE SplitItems(Tail(s), Append(cur, Head(s)))

JsonItems(s) ==
    LET inner == PyStrip(SubSeq(s, 2, Len(s) - 1)) IN
    IF inner = <<>> THEN <<>> ELSE SplitItems(inner, <<>>)

\* a JSON array of ints
IsJsonIntArray(s) ==
    /\ Len(s) >= 2
    /\ s[1] = "[" /\ s[Len(s)] = "]"
    /\ \A i \in 1..Len(JsonItems(s)) : IsJsonInt(PyStrip(JsonItems(s)[i]))

\* json.loads(text): ok is FALSE where it raises JSONDecodeError.  Texts of
\* true, false, null, ints, strings without escapes and arrays of ints are
\* decoded; no other JSON text is written or read here.
JsonLoads(text) ==
    LET s == PyStrip(text) IN
    IF s = <<"t", "r", "u", "e">> THEN [ok |-> TRUE, value |-> PyBool(TRUE)]
    ELSE IF s = <<"f", "a", "l", "s", "e">> THEN [ok |-> TRUE, value |-> PyBool(FALSE)]
    ELSE IF s = <<"n", "u", "l", "l">> THEN [ok |-> TRUE, value |-> PyNone]
    ELSE IF IsJsonInt(s) THEN [ok |-> TRUE, value |-> JsonInt(s)]
    ELSE IF IsJsonString(s)
         THEN [ok |-> TRUE, value |-> PyS(SubSeq(s, 2, Len(s) - 1))]
    ELSE IF IsJsonIntArray(s)
         THEN [ok |-> TRUE,
               value |-> PyList([i \in 1..Len(JsonItems(s)) |->
                                    JsonInt(PyStrip(JsonItems(s)[i]))])]
    ELSE [ok |-> FALSE, value |-> PyNone]

PreferenceRow(key, text, clock) ==
    [preference_key |-> key, preference_value |-> text, updated_at |-> clock]

\* INSERT OR REPLACE INTO user_preferences: preference_key is UNIQUE, the row
\* in conflict is deleted before the new one is inserted
InsertOrReplace(prefs, key, text, clock) ==
    {r \in prefs : r.preference_key # key} \cup {PreferenceRow(key, text, clock)}

\* Database.save_user_preference; ok is FALSE where sqlite3 raises
save_user_preference(prefs, clock, key, value, ok) ==
    IF ok THEN [user_preferences |-> InsertOrReplace(prefs, key, PreferenceText(value), clock),
                ret |-> TRUE]
    ELSE [user_preferences |-> prefs, ret |-> FALSE]

\* Database.get_user_preference; ok is FALSE where sqlite3 raises
get_user_preference(prefs, key, default, ok) ==
    IF ~ok THEN {default}
    ELSE IF \E r \in prefs : r.preference_key = key
         THEN {IF JsonLoads(r.preference_value).ok
               THEN JsonLoads(r.preference_value).value
               ELSE PyS(r.preference_value) : r \in {q \in prefs : q.preference_key = key}}
         ELSE {default}

\* the values given as preferences and as defaults
PreferenceValues ==
    {PyS(<<"a">>), PyS(<<"1">>), PyInt(1), PyBool(TRUE), PyList(<<PyInt(1), PyInt(2)>>)}
PreferenceDefaults == {PyNone, PyS(<<"d">>)}

\* one call of Database.save_user_preference
SaveUserPreference(key, value, ok) ==
    LET out == save_user_preference(user_preferences, now, key, value, ok) IN
    /\ op = "idle"
    /\ user_preferences' = out.user_preferences
    /\ preference_set' = IF out.ret THEN [preference_set EXCEPT ![key] = WasSet(value)]
                         ELSE preference_set
    /\ op' = "save_user_preference"
    /\ arg' = [key |-> key, value |-> value, ok |-> ok]
    /\ ret' = PyBool(out.ret)
    /\ UNCHANGED <<rows, nextId, now, saved, calls, pc, local,
                   engine_user_preferences, preference_saves, recent_folders, folder_accesses, field_patterns>>

\* one call of Database.get_user_preference
GetUserPreference(key, default, ok) ==
    /\ op = "idle"
    /\ \E v \in get_user_preference(user_preferences, key, default, ok) : ret' = v
    /\ op' = "get_user_preference"
    /\ arg' = [key |-> key, default |-> default, ok |-> ok]
    /\ UNCHANGED <<rows, nextId, now, saved, calls, pc, local, user_preferences, preference_set,
                   engine_user_preferences, preference_saves, recent_folders, folder_accesses, field_patterns>>

NextPreferences ==
    \/ Tick
    \/ Respond
    \/ op = "idle" /\ \E k \in PreferenceKeys, v \in PreferenceValues, ok \in BOOLEAN :
          SaveUserPreference(k, v, ok)
    \/ op = "idle" /\ \E k \in PreferenceKeys, d \in PreferenceDefaults, ok \in BOOLEAN :
          GetUserPreference(k, d, ok)

SpecPreferences == Init /\ [][NextPreferences]_vars

(***************************************************************************)
(* LearningEngine.save_user_preference and get_user_preference: the        *)
(* engine's cache self.user_preferences in front of the store.             *)
(***************************************************************************)
\* LearningEngine.save_user_preference: self.user_preferences[key] = value,
\* then return self.db.save_user_preference(key, value)
engine_save_user_preference(cache, prefs, clock, key, value, ok) ==
    LET out == save_user_preference(prefs, clock, key, value, ok) IN
    [user_preferences |-> out.user_preferences, ret |-> out.ret,
     cache |-> [cache EXCEPT ![key] = Cached(value)]]

\* LearningEngine.get_user_preference: the cached value if the key is in the
\* cache; otherwise the store's answer, cached unless it is None
engine_get_user_preference(cache, prefs, key, default, ok) ==
    IF cache[key].cached THEN {[ret |-> cache[key].value, cache |-> cache]}
    ELSE {[ret |-> value,
           cache |-> IF value # PyNone THEN [cache EXCEPT ![key] = Cached(value)]
                     ELSE cache] :
             value \in get_user_preference(prefs, key, default, ok)}

\* one call of LearningEngine.save_user_preference
EngineSaveUserPreference(key, value, ok) ==
    LET out == engine_save_user_preference(engine_user_preferences, user_preferences,
                                           now, key, value, ok) IN
    /\ op = "idle"
    /\ user_preferences' = out.user_preferences
    /\ engine_user_preferences' = out.cache
    /\ preference_set' = IF out.ret THEN [preference_set EXCEPT ![key] = WasSet(value)]
                         ELSE preference_set
    /\ preference_saves' = preference_saves \cup {key}
    /\ op' = "engine.save_user_preference"
    /\ arg' = [key |-> key, value |-> value, ok |-> ok]
    /\ ret' = PyBool(out.ret)
    /\ UNCHANGED <<rows, nextId, now, saved, calls, pc, local, recent_folders,
                   folder_accesses, field_patterns>>

\* one call of LearningEngine.get_user_preference
EngineGetUserPreference(key, default, ok) ==
    /\ op = "idle"
    /\ \E out \in engine_get_user_preference(engine_user_preferences, user_preferences,
                                             key, default, ok) :
          /\ ret' = out.ret
          /\ engine_user_preferences' = out.cache
    /\ op' = "engine.get_user_preference"
    /\ arg' = [key |-> key, default |-> default, ok |-> ok]
    /\ UNCHANGED <<rows, nextId, now, saved, calls, pc, local, user_preferences,
                   preference_set, preference_saves, recent_folders, folder_accesses,
                   field_patterns>>

NextEnginePreferences ==
    \/ Respond
    \/ op = "idle" /\ \E k \in PreferenceKeys, v \in PreferenceValues, ok \in BOOLEAN :
          EngineSaveUserPreference(k, v, ok)
    \/ op = "idle" /\ \E k \in PreferenceKeys, d \in PreferenceDefaults, ok \in BOOLEAN :
          EngineGetUserPreference(k, d, ok)

SpecEnginePreferences == Init /\ [][NextEnginePreferences]_vars

(***************************************************************************)
(* The Usage Store: table recent_folders, Database.cleanup_old_data, and   *)
(* the store with all its operations.                                      *)
(***************************************************************************)
\* a row of recent_folders; folder_path is UNIQUE
FolderRow(folder_path, access_count, clock) ==
    [folder_path |-> folder_path, access_count |-> access_count, last_accessed |-> clock]

\* an UPDATE that sets access_count back to 1
UpdateFolder_resets_count(folders, folder_path, clock) ==
    {IF r.folder_path = folder_path THEN FolderRow(folder_path, 1, clock) ELSE r :
        r \in folders}

\* UPDATE recent_folders SET access_count = ?, last_accessed = CURRENT_TIMESTAMP
\* WHERE id = ?, with current_count + 1 of the row the SELECT found
UpdateFolder(folders, folder_path, clock) ==
    {IF r.folder_path = folder_path
     THEN FolderRow(folder_path, r.access_count + 1, clock)
     ELSE r : r \in folders}

\* Database.save_recent_folder; ok = FALSE is the except branch: nothing is
\* committed, False is returned
save_recent_folder(folders, clock, folder_path, ok) ==
    IF ~ok THEN [recent_folders |-> folders, ret |-> FALSE]
    ELSE IF \E r \in folders : r.folder_path = folder_path
    THEN [recent_folders |-> UpdateFolder(folders, folder_path, clock), ret |-> TRUE]
    ELSE [recent_folders |-> folders \cup {FolderRow(folder_path, 1, clock)}, ret |-> TRUE]

\* ORDER BY last_accessed DESC
FolderOrder(a, b) == a.last_accessed >= b.last_accessed

\* the dict appended to folders for one row
FolderEntry(r) ==
    [path |-> r.folder_path, access_count |-> r.access_count,
     last_accessed |-> r.last_accessed]

\* Database.get_recent_folders: the lists it can return (rows with the same
\* last_accessed come in either order)
get_recent_folders(folders, limit, ok) ==
    IF ~ok THEN {<<>>}
    ELSE {[i \in 1..Len(Limit(s, limit)) |-> FolderEntry(s[i])] :
            s \in {t \in [1..Cardinality(folders) -> folders] :
                     /\ \A i, j \in 1..Cardinality(folders) : i # j => t[i] # t[j]
                     /\ \A i, j \in 1..Cardinality(folders) :
                           i < j => FolderOrder(t[i], t[j])}}

\* datetime('now', '-{} days'): CURRENT_TIMESTAMP and 'now' are both UTC; the
\* age is counted in half days, as the clock is
DatetimeNowMinus(clock, age) == clock - age

\* a sweep that also removes the rows whose last_used is the cutoff
cleanup_old_data_at_cutoff(rws, clock, age, ok) ==
    IF ~ok THEN [rows |-> rws, ret |-> 0]
    ELSE LET old == {r \in rws : r.last_used <= DatetimeNowMinus(clock, age)}
         IN [rows |-> rws \ old, ret |-> Cardinality(old)]

\* Database.cleanup_old_data: DELETE FROM metadata_learning WHERE last_used <
\* datetime('now', '-{} days'); returns cursor.rowcount, 0 from the except branch
cleanup_old_data(rws, clock, age, ok) ==
    IF ~ok THEN [rows |-> rws, ret |-> 0]
    ELSE LET old == {r \in rws : r.last_used < DatetimeNowMinus(clock, age)}
         IN [rows |-> rws \ old, ret |-> Cardinality(old)]

FoldersBounded(folders) == \A r \in folders : r.access_count <= MaxCount

\* one call of Database.save_recent_folder
SaveRecentFolder(folder_path, ok) ==
    LET out == save_recent_folder(recent_folders, now, folder_path, ok) IN
    /\ op = "idle"
    /\ FoldersBounded(out.recent_folders)
    /\ recent_folders' = out.recent_folders
    /\ folder_accesses' = IF out.ret THEN [folder_accesses EXCEPT ![folder_path] = @ + 1]
                          ELSE folder_accesses
    /\ op' = "save_recent_folder"
    /\ arg' = [folder_path |-> folder_path, ok |-> ok]
    /\ ret' = PyBool(out.ret)
    /\ UNCHANGED <<rows, nextId, now, saved, calls, pc, local, user_preferences,
                   preference_set, engine_user_preferences, preference_saves,
                   field_patterns>>

\* one call of Database.get_recent_folders
GetRecentFolders(limit, ok) ==
    /\ op = "idle"
    /\ \E l \in get_recent_folders(recent_folders, limit, ok) : ret' = l
    /\ op' = "get_recent_folders"
    /\ arg' = [limit |-> limit, ok |-> ok]
    /\ UNCHANGED <<rows, nextId, now, saved, calls, pc, local, user_preferences,
                   preference_set, engine_user_preferences, preference_saves,
                   recent_folders, folder_accesses, field_patterns>>

\* one call of Database.cleanup_old_data(days), age = 2 * days
CleanupOldData(age, ok) ==
    LET out == cleanup_old_data(rows, now, age, ok) IN
    /\ op = "idle"
    /\ rows' = out.rows
    /\ op' = "cleanup_old_data"
    /\ arg' = [age |-> age, ok |-> ok]
    /\ ret' = PyInt(out.ret)
    /\ UNCHANGED <<nextId, now, saved, calls, pc, local, user_preferences,
                   preference_set, engine_user_preferences, preference_saves,
                   recent_folders, folder_accesses, field_patterns>>

\* one call of Database.get_all_suggestions
GetAllSuggestions(ok) ==
    /\ op = "idle"
    /\ \E l \in get_all_suggestions(rows, ok) : ret' = l
    /\ op' = "get_all_suggestions"
    /\ arg' = [ok |-> ok]
    /\ UNCHANGED <<rows, nextId, now, saved, calls, pc, local, user_preferences,
                   preference_set, engine_user_preferences, preference_saves,
                   recent_folders, folder_accesses, field_patterns>>

NextFolders ==
    \/ Tick
    \/ Respond
    \/ op = "idle" /\ \E p \in FolderPaths, ok \in BOOLEAN : SaveRecentFolder(p, ok)
    \/ op = "idle" /\ \E l \in 0..MaxLimit, ok \in BOOLEAN : GetRecentFolders(l, ok)

SpecFolders == Init /\ [][NextFolders]_vars

\* the ages swept: 0, half a day, one day
CleanupAges == 0..MaxTime
\* the entries, the preference and the folder of the store with all its
\* operations (the engine's queries are in Spec)
AllPairs == {<<Artist, <<"a">>>>, <<Flash, <<"7">>>>}
ThePreference == <<"k">>
TheFolder == <<"/", "a">>

\* the preference and the folder are written while the store is fresh: no
\* usage entry recorded yet, the clock at its start
Fresh == nextId = 1 /\ now = 0

NextStore ==
    \/ Tick
    \/ Respond
    \/ op = "idle" /\ \E p \in AllPairs, ok \in BOOLEAN : SaveMetadataValue(p[1], p[2], ok)
    \/ op = "idle" /\ \E ok \in BOOLEAN : GetFieldSuggestions(Artist, MaxLimit, ok)
    \/ op = "idle" /\ \E ok \in BOOLEAN : GetAllSuggestions(ok)
    \/ op = "idle" /\ Fresh /\ \E ok \in BOOLEAN : SaveUserPreference(ThePreference, PyInt(1), ok)
    \/ op = "idle" /\ \E ok \in BOOLEAN : GetUserPreference(ThePreference, PyNone, ok)
    \/ op = "idle" /\ Fresh /\ \E ok \in BOOLEAN : SaveRecentFolder(TheFolder, ok)
    \/ op = "idle" /\ \E ok \in BOOLEAN : GetRecentFolders(MaxLimit, ok)
    \/ op = "idle" /\ \E a \in CleanupAges, ok \in BOOLEAN : CleanupOldData(a, ok)

SpecStore == Init /\ [][NextStore]_vars

(***************************************************************************)
(* The pattern history of the engine.                                      *)
(***************************************************************************)
\* the values classified
JohnEmail ==
    <<"j", "o", "h", "n", "@", "e", "x", "a", "m", "p", "l", "e", ".", "c",
      "o", "m">>
MainStreet ==
    <<"1", "2", "3", " ", "M", "a", "i", "n", " ", "S", "t", "r", "e", "e",
      "t">>
FortyTwo == <<"4", "2">>
DrWho == <<"D", "r", " ", "W", "h", "o">>
SevenDigits == <<" ", "1", "2", "3", "4", "5", "6", "7", " ">>
EightDigits == <<"1", "2", "3", "4", "5", "6", "7", "8">>
NoDot == <<"a", "@", "b">>
MrsEmail == <<"M", "R", "S", ".", " ", "X", "@", "Y", ".", "Z">>
Plain == <<"p", "l", "a", "i", "n">>
PatternValues ==
    {PyS(JohnEmail), PyS(MainStreet), PyS(FortyTwo), PyS(DrWho), PyS(SevenDigits),
     PyS(EightDigits), PyS(NoDot), PyS(MrsEmail), PyS(Plain), PyInt(12345678)}

\* the histories are kept to MaxHistory tags
HistoriesBounded(patterns) == \A f \in DOMAIN patterns : Len(patterns[f]) <= MaxHistory

\* one call of LearningEngine._update_field_patterns
UpdateFieldPatterns(field_name, field_value) ==
    LET out == update_field_patterns(field_patterns, field_name, field_value) IN
    /\ op = "idle"
    /\ HistoriesBounded(out)
    /\ field_patterns' = out
    /\ op' = "_update_field_patterns"
    /\ arg' = [field_name |-> field_name, field_value |-> field_value]
    /\ ret' = PyNone
    /\ UNCHANGED <<rows, nextId, now, saved, calls, pc, local, user_preferences,
                   preference_set, engine_user_preferences, preference_saves,
                   recent_folders, folder_accesses>>

NextPatterns ==
    \/ Respond
    \/ op = "idle" /\ \E f \in PatternFields, v \in PatternValues : UpdateFieldPatterns(f, v)

SpecPatterns == Init /\ [][NextPatterns]_vars

(***************************************************************************)
(* Claims.                                                                 *)
(***************************************************************************)
RECURSIVE SumCounts(_)
SumCounts(S) ==
    IF S = {} THEN 0
    ELSE LET r == CHOOSE x \in S : TRUE IN r.usage_count + SumCounts(S \ {r})

\* C1: after N >= 1 sequential successful save_metadata_value(field, value)
\* calls on a store that had no entry for the pair, the store holds one entry
\* for the pair, with usage_count = N and last_used = the time of the Nth call.
C1_IdempotentIncrement ==
    \A p \in DOMAIN saved :
        LET m == Matching(rows, p[1], p[2]) IN
        /\ Cardinality(m) = 1
        /\ \A r \in m : r.usage_count = saved[p].n /\ r.last_used = saved[p].at

\* C1 witness: a pair was saved twice, the second time after the clock moved.
C1_Witness ==
    \E p \in DOMAIN saved :
        /\ saved[p].n = 2
        /\ saved[p].at > 0
        /\ \E r \in Matching(rows, p[1], p[2]) : r.usage_count = 2 /\ r.last_used = saved[p].at

\* C2: concurrent save_metadata_value calls for one pair lose no update: once
\* the calls in flight have returned, the pair's usage count is the number of
\* calls that returned True.
C2_NoLostUpdate ==
    (\A w \in Workers : pc[w] = "idle") =>
        \A p \in DOMAIN saved : SumCounts(Matching(rows, p[1], p[2])) = saved[p].n

\* C3: get_field_suggestions(field, limit) returns at most limit entries, each
\* an entry of that field, by usage_count descending and, among equal counts,
\* by last_used descending (of two entries with equal counts the more recently
\* used one comes first).
C3_SuggestionsRanked ==
    op = "get_field_suggestions" =>
        /\ Len(ret) <= arg.limit
        /\ \A i \in 1..Len(ret) :
              \E r \in rows : r.field_name = arg.field_name /\ Suggestion(r) = ret[i]
        /\ \A i, j \in 1..Len(ret) :
              i < j => \/ ret[i].usage_count > ret[j].usage_count
                       \/ /\ ret[i].usage_count = ret[j].usage_count
                          /\ ret[i].last_used >= ret[j].last_used
        /\ \A i, j \in 1..Len(ret) :
              (ret[i].usage_count = ret[j].usage_count
                 /\ ret[i].last_used > ret[j].last_used) => i < j

\* C3 witness: two entries of the field with equal counts, the later one first.
C3_Witness ==
    /\ op = "get_field_suggestions"
    /\ Len(ret) = 2
    /\ ret[1].usage_count = ret[2].usage_count
    /\ ret[1].last_used > ret[2].last_used

(***************************************************************************)
(* What a handler's trace says about entry e of its request (the single    *)
(* update of update_metadata is entry 1).                                  *)
(***************************************************************************)
IsHandler == op \in {"update_metadata", "batch_update"}
Entries == IF op = "update_metadata" THEN {1} ELSE 1..Len(arg)
EntryPath(e) == IF op = "update_metadata" THEN arg.path ELSE arg[e].path
EntryMetadata(e) == IF op = "update_metadata" THEN arg.metadata ELSE arg[e].metadata
EventsOf(call, e) == SelectSeq(calls, LAMBDA c : c.call = call /\ c.entry = e)
MergeSucceeded(e) == \E k \in 1..Len(calls) :
                        calls[k].call = "merge" /\ calls[k].entry = e /\ calls[k].ret
\* the fields of a record whose value, taken as a string, is not blank
NonBlankFields(metadata) ==
    SelectSeq(FlattenFields(metadata), LAMBDA f : PyStrip(PyStr(f.value)) # <<>>)
WellFormed(updates) ==
    \A i \in 1..Len(updates) : updates[i].has_path /\ updates[i].has_metadata

\* C4: update_metadata and batch_update call learn (and so save_metadata_value)
\* for an entry only after its merge returned True; when no merge succeeds no
\* save_metadata_value call is made and the store is left as it was.
C4_LearnOnlyAfterMerge ==
    [][(op' \in {"update_metadata", "batch_update"}) =>
          /\ \A k \in 1..Len(calls') :
                calls'[k].call \in {"save", "learn"} =>
                   \E j \in 1..(k - 1) : /\ calls'[j].call = "merge"
                                         /\ calls'[j].entry = calls'[k].entry
                                         /\ calls'[j].ret
          /\ (~\E j \in 1..Len(calls') : calls'[j].call = "merge" /\ calls'[j].ret) =>
                /\ \A k \in 1..Len(calls') : calls'[k].call # "save"
                /\ rows' = rows
                /\ nextId' = nextId]_vars

\* C4 witness: the merge of a record with a recordable field failed on a
\* section write, and no save_metadata_value call was made.
C4_Witness ==
    /\ op = "update_metadata"
    /\ ret.status = 500
    /\ NumLearnCalls(arg.metadata) > 0
    /\ \E k \in 1..Len(calls) : calls[k].call = "write" /\ ~calls[k].ret
    /\ \A k \in 1..Len(calls) : calls[k].call # "save"

\* C5: learn calls save_metadata_value exactly once, with (field name, string
\* form of the value), for every field of every mapping section whose value
\* taken as a string is not blank, and for no other field.
C5_LearnRecordsEveryNonBlank ==
    (op = "update_metadata" /\ ret.success) =>
        LET want == NonBlankFields(arg.metadata)
            got == EventsOf("save", 1)
        IN /\ Len(got) = Len(want)
           /\ \A i \in 1..Len(want) :
                 Cardinality({k \in 1..Len(got) :
                                 got[k].name = want[i].name
                                 /\ got[k].value = PyStr(want[i].value)})
                 = Cardinality({j \in 1..Len(want) :
                                 want[j].name = want[i].name
                                 /\ PyStr(want[j].value) = PyStr(want[i].value)})

\* C6: learn returns True also when save_metadata_value returned False, and
\* after a failed call it still makes one call for every remaining field that
\* is not blank: with a failed call in the trace there is one call per
\* non-blank field of the record.
C6_LearnContinuesAfterFailure ==
    (op = "update_metadata" /\ ret.success) =>
        /\ \A k \in 1..Len(calls) : calls[k].call = "learn" => calls[k].ret
        /\ (\E k \in 1..Len(calls) : calls[k].call = "save" /\ ~calls[k].ret) =>
              Len(EventsOf("save", 1)) = Len(NonBlankFields(arg.metadata))

\* With the fields that pass the guard of line 21 in place of the non-blank
\* ones, learn does make one call per field whatever the calls return.
LearnMakesEveryGuardedCall ==
    (op = "update_metadata" /\ ret.success) =>
        /\ \A k \in 1..Len(calls) : calls[k].call = "learn" => calls[k].ret
        /\ Len(EventsOf("save", 1)) = NumLearnCalls(arg.metadata)

\* C7: batch_update on updates that each have a path and a metadata returns
\* one result per update, in input order, total = the number of updates and
\* successful = the number of results with success; the result of an update
\* depends on that update alone (its file exists, has a supported format and
\* every section write succeeded), and an update of a file that does not exist
\* gets success = False and an error.
C7_BatchResults ==
    (op = "batch_update" /\ WellFormed(arg)) =>
        /\ ret.status = 200
        /\ Len(ret.results) = Len(arg)
        /\ ret.total = Len(arg)
        /\ ret.successful = Cardinality({i \in 1..Len(ret.results) : ret.results[i].success})
        /\ \A i \in 1..Len(ret.results) :
              /\ ret.results[i].path = arg[i].path
              /\ ret.results[i].success <=>
                    /\ arg[i].path \in Files
                    /\ arg[i].path.suffix \in supported_formats
                    /\ \A k \in 1..Len(calls) :
                          (calls[k].call = "write" /\ calls[k].entry = i) => calls[k].ret
              /\ ret.results[i].success <=> ret.results[i].error = NoError
              /\ arg[i].path \notin Files =>
                    ~ret.results[i].success /\ ret.results[i].error # NoError

\* C7 witness: a batch of 3 whose second update names a file that does not
\* exist: total 3, successful 2, an error on result 2 only.
C7_Witness ==
    /\ op = "batch_update"
    /\ Len(arg) = 3
    /\ WellFormed(arg)
    /\ arg[2].path \notin Files
    /\ ret.total = 3
    /\ ret.successful = 2
    /\ ret.results[1].success /\ ret.results[3].success
    /\ ~ret.results[2].success /\ ret.results[2].error # NoError

\* C8: in batch_update the failure of one entry, an entry that lacks its path
\* or its metadata included, is isolated: the batch does not fail as a whole
\* and every entry gets its own result.
C8_BatchEntryIsolation ==
    op = "batch_update" =>
        /\ ret.status = 200
        /\ Len(ret.results) = Len(arg)

\* C9: update_metadata of the handler, on an existing file of a supported
\* format, attempts the write of every section among EXIF, IPTC, XMP that the
\* update has, in that order, whether or not an earlier write failed; it
\* returns True iff every one of them reported success; a write that reported
\* success stays in the trace (nothing undoes it) when another one fails.
C9_MergeEverySection ==
    IsHandler =>
        \A e \in Entries :
            (\E k \in 1..Len(calls) : calls[k].call = "merge" /\ calls[k].entry = e)
            /\ EntryPath(e) \in Files /\ EntryPath(e).suffix \in supported_formats
            => LET w == EventsOf("write", e)
                   present == SelectSeq(MergeSections,
                                        LAMBDA sec : HasKey(EntryMetadata(e), sec))
               IN /\ Len(w) = Len(present)
                  /\ \A i \in 1..Len(w) : w[i].section = present[i]
                  /\ MergeSucceeded(e) <=> \A i \in 1..Len(w) : w[i].ret
                  /\ \A k \in 1..Len(calls) :
                        (calls[k].call = "merge" /\ calls[k].entry = e) =>
                            \A j \in 1..Len(calls) :
                                (calls[j].call = "write" /\ calls[j].entry = e) => j < k

\* C9 witness: the EXIF write succeeded, the IPTC write failed, the XMP write
\* was still attempted, and the merge returned False.
C9_Witness ==
    /\ op = "update_metadata"
    /\ ~ret.success
    /\ LET w == EventsOf("write", 1) IN
       /\ Len(w) = 3
       /\ w[1].section = "EXIF" /\ w[1].ret
       /\ w[2].section = "IPTC" /\ ~w[2].ret
       /\ w[3].section = "XMP"

\* the number of sections of a record that are no mapping, and of field names
\* that are empty after strip()
RECURSIVE SumLens(_)
SumLens(metadata) ==
    IF metadata = <<>> THEN 0
    ELSE (IF Head(metadata).mapping
          THEN Len(SelectSeq(Head(metadata).fields, LAMBDA f : PyStrip(f.name) = <<>>))
          ELSE 1) + SumLens(Tail(metadata))

ValidationResult(result, metadata) ==
    /\ result.t = "list"
    /\ Len(result.v) = SumLens(metadata)
    /\ \A i \in 1..Len(metadata) :
          LET about == SelectSeq(result.v,
                                 LAMBDA err : err.section = metadata[i].section)
          IN IF metadata[i].mapping
             THEN /\ \A k \in 1..Len(about) : about[k] = EmptyNameError(metadata[i].section)
                  /\ Len(about) = Len(SelectSeq(metadata[i].fields,
                                                LAMBDA f : PyStrip(f.name) = <<>>))
             ELSE about = <<SectionError(metadata[i].section)>>

\* C10: validate_metadata(record) returns a list: the empty list for a valid
\* record, exactly one error naming the section for each section that is no
\* mapping, exactly one error for each field name that is empty after strip().
C10_ValidateReturnsErrors ==
    op = "validate_metadata" => ValidationResult(ret, arg)

\* The list `errors` that validate_metadata builds does have that content; it
\* is the missing return that loses it.
ValidateErrorsComplete ==
    op = "validate_metadata" => ValidationResult(PyList(ValidateErrors(arg)), arg)

\* C11: in update_metadata validation runs before merge and learn: a request
\* whose record has a section that is not a mapping is reported with a
\* structural error and does not end with success = True.
C11_ValidateBeforeMerge ==
    (op = "update_metadata"
       /\ \E i \in 1..Len(arg.metadata) : ~arg.metadata[i].mapping)
    => ~ret.success

(***************************************************************************)
(* What a get_suggestions call was asked and what it found.                *)
(***************************************************************************)
StoreHas(f) == \E r \in rows : r.field_name = f
\* the values the fields named f have in the mapping sections of a record
ValuesOf(metadata, f) ==
    {FlattenFields(metadata)[i].value :
        i \in {j \in 1..Len(FlattenFields(metadata)) : FlattenFields(metadata)[j].name = f}}
\* the values the fields named f have in the EXIF section of a record
ExifValuesOf(metadata, f) ==
    ValuesOf(SelectSeq(metadata, LAMBDA sec : sec.section = "EXIF"), f)
PerField == calls[1].result
Contextual == calls[2].result
SuggestedNames == {Make, Model, Artist, Copyright, GPSLatitude, GPSLongitude, Location}

\* C12: for a field name f that no contextual rule produces, the map of
\* get_suggestions has key f iff f has a non-empty value (one whose string form
\* is not blank) in some mapping section and the store holds an entry for f;
\* its list is then a result of get_field_suggestions(f, 5): not empty, at
\* most 5 entries.
C12_PerFieldSuggestions ==
    (op = "get_suggestions" /\ arg.ok) =>
        \A f \in SuggestedNames \ DOMAIN Contextual :
            /\ f \in DOMAIN ret <=>
                  /\ \E v \in ValuesOf(arg.metadata, f) : PyStrip(PyStr(v)) # <<>>
                  /\ StoreHas(f)
            /\ f \in DOMAIN ret =>
                  /\ ret[f] \in get_field_suggestions(rows, f, PerFieldLimit, TRUE)
                  /\ Len(ret[f]) \in 1..PerFieldLimit

\* With the values that pass the guard of line 80 in place of the non-empty
\* ones, the map has exactly those keys, with those lists.
SuggestionsForGuardedFields ==
    (op = "get_suggestions" /\ arg.ok) =>
        \A f \in SuggestedNames \ DOMAIN Contextual :
            /\ f \in DOMAIN ret <=>
                  /\ \E v \in ValuesOf(arg.metadata, f) : SuggestGuard(v)
                  /\ StoreHas(f)
            /\ f \in DOMAIN ret =>
                  /\ ret[f] \in get_field_suggestions(rows, f, PerFieldLimit, TRUE)
                  /\ Len(ret[f]) \in 1..PerFieldLimit

\* C13: when a field name is produced by the per-field query and by a
\* contextual rule, the map of get_suggestions holds the contextual list (a
\* result of the limit-3 query) for it, not the limit-5 list.
C13_ContextualTakesPrecedence ==
    (op = "get_suggestions" /\ arg.ok) =>
        \A f \in DOMAIN PerField \cap DOMAIN Contextual :
            /\ f \in DOMAIN ret
            /\ ret[f] = Contextual[f]
            /\ ret[f] \in get_field_suggestions(rows, f, ContextualLimit, TRUE)
            /\ Len(ret[f]) <= ContextualLimit

\* C13 witness: Model came from both, the per-field list had 4 entries and the
\* map holds the 3 of the contextual list.
C13_Witness ==
    /\ op = "get_suggestions"
    /\ Model \in DOMAIN PerField \cap DOMAIN Contextual
    /\ Len(PerField[Model]) = 4
    /\ Len(ret[Model]) = 3

\* C14: with Make present (populated) and an EXIF section that has no Model
\* or an empty Model, and a store with an entry for Model, get_suggestions has
\* key Model with a result of get_field_suggestions("Model", 3); with
\* EXIF.Model populated no contextual Model entry is added.
C14_ContextualModel ==
    (op = "get_suggestions" /\ arg.ok) =>
        /\ ((\E v \in ValuesOf(arg.metadata, Make) : v # PyS(<<>>))
              /\ ExifValuesOf(arg.metadata, Model) \subseteq {PyS(<<>>)}
              /\ StoreHas(Model))
           => /\ Model \in DOMAIN ret
              /\ ret[Model] \in get_field_suggestions(rows, Model, ContextualLimit, TRUE)
              /\ Len(ret[Model]) <= ContextualLimit
        /\ (\E v \in ExifValuesOf(arg.metadata, Model) : v # PyS(<<>>))
           => Model \notin DOMAIN Contextual

\* C15: with GPSLatitude and GPSLongitude both present, whatever their
\* values, and a store with an entry for Location, get_suggestions has key
\* Location with a result of get_field_suggestions("Location", 3); with only
\* one of the two present no contextual Location entry is added.
C15_ContextualLocation ==
    (op = "get_suggestions" /\ arg.ok) =>
        /\ (ValuesOf(arg.metadata, GPSLatitude) # {}
              /\ ValuesOf(arg.metadata, GPSLongitude) # {}
              /\ StoreHas(Location))
           => /\ Location \in DOMAIN ret
              /\ ret[Location] \in get_field_suggestions(rows, Location, ContextualLimit, TRUE)
        /\ (ValuesOf(arg.metadata, GPSLatitude) = {}
              \/ ValuesOf(arg.metadata, GPSLongitude) = {})
           => Location \notin DOMAIN Contextual

\* C16: with Artist present (populated) and an EXIF section that has no
\* Copyright or an empty Copyright, and a store with an entry for Copyright,
\* get_suggestions has key Copyright with a result of
\* get_field_suggestions("Copyright", 3); with EXIF.Copyright populated no
\* contextual Copyright entry is added.
C16_ContextualCopyright ==
    (op = "get_suggestions" /\ arg.ok) =>
        /\ ((\E v \in ValuesOf(arg.metadata, Artist) : v # PyS(<<>>))
              /\ ExifValuesOf(arg.metadata, Copyright) \subseteq {PyS(<<>>)}
              /\ StoreHas(Copyright))
           => /\ Copyright \in DOMAIN ret
              /\ ret[Copyright] \in get_field_suggestions(rows, Copyright, ContextualLimit, TRUE)
        /\ (\E v \in ExifValuesOf(arg.metadata, Copyright) : v # PyS(<<>>))
           => Copyright \notin DOMAIN Contextual

\* The rules as the code has them: the trigger field must have a truthy value,
\* and the EXIF section must lack the key of the suggested field.
ContextualRulesAsCoded ==
    (op = "get_suggestions" /\ arg.ok) =>
        /\ Model \in DOMAIN Contextual <=>
              /\ \E v \in ValuesOf(arg.metadata, Make) : PyTruthy(v)
              /\ ExifValuesOf(arg.metadata, Model) = {}
              /\ StoreHas(Model)
        /\ Location \in DOMAIN Contextual <=>
              /\ \E v \in ValuesOf(arg.metadata, GPSLatitude) : PyTruthy(v)
              /\ \E v \in ValuesOf(arg.metadata, GPSLongitude) : PyTruthy(v)
              /\ StoreHas(Location)
        /\ Copyright \in DOMAIN Contextual <=>
              /\ \E v \in ValuesOf(arg.metadata, Artist) : PyTruthy(v)
              /\ ExifValuesOf(arg.metadata, Copyright) = {}
              /\ StoreHas(Copyright)
        /\ \A f \in DOMAIN Contextual :
              Contextual[f] \in get_field_suggestions(rows, f, ContextualLimit, TRUE)

(***************************************************************************)
(* The usage entries of the store, as the engine reports them.             *)
(***************************************************************************)
UsageEntries ==
    {[field |-> r.field_name, value |-> r.field_value,
      usage_count |-> r.usage_count, last_used |-> r.last_used] : r \in rows}
Returned == {ret[i] : i \in 1..Len(ret)}
Smaller(a, b) == IF a < b THEN a ELSE b

\* C17: get_popular_values(limit) returns at most limit entries (limit of
\* them when the store has as many) taken from the usage entries of all
\* fields, by usage_count descending and, among equal counts, by last_used
\* descending; an entry with a higher count comes before one with a lower
\* count that was used later, and no entry left out has a higher
\* (usage_count, last_used) than an entry returned.
C17_PopularValues ==
    (op = "get_popular_values" /\ arg.ok) =>
        /\ Len(ret) = Smaller(arg.limit, Cardinality(UsageEntries))
        /\ Returned \subseteq UsageEntries
        /\ \A i, j \in 1..Len(ret) :
              i < j => /\ ret[i] # ret[j]
                       /\ \/ ret[i].usage_count > ret[j].usage_count
                          \/ /\ ret[i].usage_count = ret[j].usage_count
                             /\ ret[i].last_used >= ret[j].last_used
        /\ \A e \in UsageEntries \ Returned : \A i \in 1..Len(ret) :
              ~ \/ e.usage_count > ret[i].usage_count
                \/ /\ e.usage_count = ret[i].usage_count
                   /\ e.last_used > ret[i].last_used

\* C17 witness: of three entries two are returned; the first, of one field,
\* has the higher count, the second, of another field, was used later.
C17_Witness ==
    /\ op = "get_popular_values"
    /\ Cardinality(UsageEntries) = 3
    /\ Len(ret) = 2
    /\ ret[1].field # ret[2].field
    /\ ret[1].usage_count > ret[2].usage_count
    /\ ret[1].last_used < ret[2].last_used

RecentEntries(days) == {e \in UsageEntries : e.last_used >= now - 2 * days}

\* C18: get_recent_values(days, limit) returns exactly the entries, across
\* all fields, with last_used >= now - days, by last_used descending and cut
\* to limit.
C18_RecentValues ==
    (op = "get_recent_values" /\ arg.ok) =>
        /\ Returned \subseteq RecentEntries(arg.days)
        /\ Len(ret) = Smaller(arg.limit, Cardinality(RecentEntries(arg.days)))
        /\ \A i, j \in 1..Len(ret) :
              i < j => ret[i] # ret[j] /\ ret[i].last_used >= ret[j].last_used
        /\ \A e \in RecentEntries(arg.days) \ Returned : \A i \in 1..Len(ret) :
              e.last_used <= ret[i].last_used

\* Where the local zone is UTC the list is the one claimed.
RecentValuesInUtc ==
    (op = "get_recent_values" /\ arg.ok /\ arg.tz = 0) =>
        /\ Returned \subseteq RecentEntries(arg.days)
        /\ Len(ret) = Smaller(arg.limit, Cardinality(RecentEntries(arg.days)))
        /\ \A i, j \in 1..Len(ret) :
              i < j => ret[i] # ret[j] /\ ret[i].last_used >= ret[j].last_used
        /\ \A e \in RecentEntries(arg.days) \ Returned : \A i \in 1..Len(ret) :
              e.last_used <= ret[i].last_used

(***************************************************************************)
(* The checklist of get_field_recommendations, as the claim lists it.      *)
(***************************************************************************)
Checklist ==
    <<[section |-> "EXIF", field |-> Artist], [section |-> "EXIF", field |-> Copyright],
      [section |-> "EXIF", field |-> ImageDescription],
      [section |-> "Custom", field |-> Title], [section |-> "Custom", field |-> Description],
      [section |-> "Custom", field |-> Keywords], [section |-> "Custom", field |-> Author]>>
\* the values the field has in that section of the record (none: missing)
SectionValuesOf(metadata, section, field) ==
    ValuesOf(SelectSeq(metadata, LAMBDA sec : sec.section = section), field)
\* empty: the empty string, 0 or false
EmptyValue(v) == v \in {PyS(<<>>), PyInt(0), PyBool(FALSE)}
MissingOrEmpty(metadata, c) ==
    \A v \in SectionValuesOf(metadata, c.section, c.field) : EmptyValue(v)
Wanted(metadata) == SelectSeq(Checklist, LAMBDA c : MissingOrEmpty(metadata, c))
CameraIncomplete(metadata) ==
    \E v \in SectionValuesOf(metadata, "EXIF", Make) : EmptyValue(v)

\* C19: get_field_recommendations emits one recommendation for each field of
\* the checklist EXIF: Artist, Copyright, ImageDescription, Custom: Title,
\* Description, Keywords, Author that is missing or empty in the record and
\* none for a populated one, in checklist order, with priority high for Artist
\* and Copyright and medium otherwise; a medium recommendation for Model is
\* appended last exactly when EXIF.Make is present but empty.
C19_FieldRecommendations ==
    op = "get_field_recommendations" =>
        LET want == Wanted(arg)
            camera == CameraIncomplete(arg)
        IN /\ Len(ret) = Len(want) + (IF camera THEN 1 ELSE 0)
           /\ \A i \in 1..Len(want) :
                 /\ ret[i].section = want[i].section
                 /\ ret[i].field = want[i].field
                 /\ ret[i].priority =
                       (IF want[i].field \in {Artist, Copyright} THEN "high" ELSE "medium")
           /\ camera => /\ ret[Len(ret)].section = "EXIF"
                        /\ ret[Len(ret)].field = Model
                        /\ ret[Len(ret)].priority = "medium"

\* C19 witness: Artist is populated, Copyright empty, Title missing, Make
\* present and empty: Copyright (high) first, a Custom field (medium) behind
\* it, Model (medium) last.
C19_Witness ==
    /\ op = "get_field_recommendations"
    /\ Len(ret) >= 3
    /\ SectionValuesOf(arg, "EXIF", Artist) = {PyS(<<"x">>)}
    /\ SectionValuesOf(arg, "EXIF", Copyright) = {PyS(<<>>)}
    /\ SectionValuesOf(arg, "EXIF", ImageDescription) = {PyS(<<"x">>)}
    /\ SectionValuesOf(arg, "EXIF", Make) = {PyS(<<>>)}
    /\ ret[1].field = Copyright /\ ret[1].priority = "high"
    /\ ret[2].section = "Custom" /\ ret[2].priority = "medium"
    /\ ret[Len(ret)].field = Model /\ ret[Len(ret)].priority = "medium"

(***************************************************************************)
(* Preferences.                                                            *)
(***************************************************************************)
EntriesFor(key) == {r \in user_preferences : r.preference_key = key}

\* C20: after any sequence of setPreference calls, getPreference(key, default)
\* returns the value of the most recent successful setPreference for that key
\* and default when none has succeeded, and the store keeps one entry per key
\* (a read on which the database raises is left aside).
C20_PreferenceRoundTrip ==
    /\ \A k \in PreferenceKeys : Cardinality(EntriesFor(k)) <= 1
    /\ (op = "get_user_preference" /\ arg.ok) =>
          ret = (IF preference_set[arg.key].set THEN preference_set[arg.key].value
                 ELSE arg.default)

\* what get_user_preference makes of a value stored by save_user_preference
Decoded(value) ==
    IF JsonLoads(PreferenceText(value)).ok THEN JsonLoads(PreferenceText(value)).value
    ELSE PyS(PreferenceText(value))

\* Lemma (C20): a read returns the decoded text of the last value stored for
\* the key, default when none was stored; one entry per key is kept.
PreferenceAsDecoded ==
    /\ \A k \in PreferenceKeys :
          /\ Cardinality(EntriesFor(k)) <= 1
          /\ preference_set[k].set <=>
                \E r \in EntriesFor(k) :
                   r.preference_value = PreferenceText(preference_set[k].value)
          /\ ~preference_set[k].set => EntriesFor(k) = {}
    /\ (op = "get_user_preference" /\ arg.ok) =>
          ret = (IF preference_set[arg.key].set THEN Decoded(preference_set[arg.key].value)
                 ELSE arg.default)

\* Lemma (C20): writing a key leaves the entry of every other key as it was.
PreferenceOtherKeysKept ==
    [][op' = "save_user_preference" =>
          \A k \in PreferenceKeys \ {arg'.key} : EntriesFor(k)' = EntriesFor(k)]_vars

\* Lemma (C20): ints, lists of ints and strings that are no JSON text are
\* returned as they were given.
PreferenceRoundTripsFor ==
    \A v \in {PyS(<<"a">>), PyInt(1), PyList(<<PyInt(1), PyInt(2)>>)} : Decoded(v) = v

\* C21: a preference value round-trips through the store: get_user_preference
\* after a successful save_user_preference(key, v) returns a value equal to v
\* and of the type of v.
C21_PreferenceValueRoundTrip ==
    (op = "get_user_preference" /\ arg.ok /\ preference_set[arg.key].set) =>
        /\ ret.t = preference_set[arg.key].value.t
        /\ ret.v = preference_set[arg.key].value.v


(***************************************************************************)
(* The engine's preferences.                                               *)
(***************************************************************************)
\* what the store answers for the key now
StoreHolds(key, default) == get_user_preference(user_preferences, key, default, TRUE)

\* C22: the store is the single source of truth: after any sequence of engine
\* save_user_preference and get_user_preference calls, failed saves included,
\* the engine's get_user_preference(key) returns the value the store holds for
\* the key (a read on which the database raises is left aside).
C22_StoreIsSourceOfTruth ==
    (op = "engine.get_user_preference" /\ arg.ok) =>
        ret \in StoreHolds(arg.key, arg.default)

\* Lemma (C22, C29): a key that is not in the cache is answered by the store.
EngineAsksStoreOnMiss ==
    [][(op' = "engine.get_user_preference" /\ ~engine_user_preferences[arg'.key].cached) =>
          ret' \in get_user_preference(user_preferences, arg'.key, arg'.default, arg'.ok)]_vars

\* C29: for a key that has never been saved the engine's
\* get_user_preference(key, default) returns the default of that very call,
\* whatever default an earlier call for the key passed.
C29_DefaultOfThisCall ==
    (op = "engine.get_user_preference" /\ arg.key \notin preference_saves) =>
        ret = arg.default


\* C28: in every reachable state the store holds at most one usage entry per
\* exact (field_name, field_value) pair, also when several save_metadata_value
\* calls for a pair not yet stored run concurrently (so that no list of
\* suggestions names a value twice).
C28_OneEntryPerPair ==
    \A p \in ConcPairs : Cardinality(Matching(rows, p[1], p[2])) <= 1

\* Lemma (C28): calls that run one after the other keep one entry per pair.
OneEntryPerPairSequential ==
    \A p \in StorePairs : Cardinality(Matching(rows, p[1], p[2])) <= 1


(***************************************************************************)
(* The retention sweep.                                                    *)
(***************************************************************************)
\* the entry is older than now minus the age
Stale(r, age) == r.last_used + age < now
SameEntry(r, q) ==
    q.id = r.id /\ q.field_name = r.field_name /\ q.field_value = r.field_value

\* C23: cleanup_old_data removes exactly the usage entries whose last_used is
\* older than now minus the age, returns the number of entries removed and
\* leaves every other entry unchanged; no other operation deletes a usage
\* entry (a sweep on which the database raises is C27).
C23_PurgeStale ==
    [][/\ (op' = "cleanup_old_data" /\ arg'.ok) =>
             /\ rows' = {r \in rows : ~Stale(r, arg'.age)}
             /\ ret' = PyInt(Cardinality({r \in rows : Stale(r, arg'.age)}))
       /\ op' # "cleanup_old_data" =>
             \A r \in rows : \E q \in rows' : SameEntry(r, q)]_vars

\* C23 witness: a sweep with an age of half a day or more has removed an entry
\* and kept another, which was last used at the cutoff.
C23_Witness ==
    /\ op = "cleanup_old_data" /\ arg.ok /\ arg.age >= 1
    /\ ret.v >= 1
    /\ \E r \in rows : r.last_used + arg.age = now


(***************************************************************************)
(* Recent folders.                                                         *)
(***************************************************************************)
FolderRowsOf(path) == {r \in recent_folders : r.folder_path = path}
Min(a, b) == IF a < b THEN a ELSE b

\* C24: get_recent_folders(limit) returns at most limit entries (as many as
\* there are, up to limit), one per distinct path, by last_accessed
\* descending, and the access_count of each entry is the number of successful
\* save_recent_folder calls for its path: 1 after the first, one more after
\* each later one, never less than 1.
C24_RecentFolders ==
    /\ \A p \in FolderPaths :
          /\ Cardinality(FolderRowsOf(p)) = (IF folder_accesses[p] = 0 THEN 0 ELSE 1)
          /\ \A r \in FolderRowsOf(p) :
                r.access_count = folder_accesses[p] /\ r.access_count >= 1
    /\ (op = "get_recent_folders" /\ arg.ok) =>
          /\ Len(ret) = Min(arg.limit, Cardinality(recent_folders))
          /\ \A i, j \in 1..Len(ret) : i # j => ret[i].path # ret[j].path
          /\ \A i, j \in 1..Len(ret) : i < j => ret[i].last_accessed >= ret[j].last_accessed
          /\ \A i \in 1..Len(ret) :
                /\ ret[i].access_count = folder_accesses[ret[i].path]
                /\ ret[i].access_count >= 1
                /\ \E r \in recent_folders : FolderEntry(r) = ret[i]

\* C24 witness: two folders are listed, the one accessed twice and later first.
C24_Witness ==
    /\ op = "get_recent_folders" /\ arg.ok /\ arg.limit = 2
    /\ Len(ret) = 2
    /\ ret[1].access_count = 2 /\ ret[2].access_count = 1
    /\ ret[1].last_accessed > ret[2].last_accessed


(***************************************************************************)
(* Failures of the storage.                                                *)
(***************************************************************************)
StoreWrites == {"save_metadata_value", "save_user_preference", "save_recent_folder"}
StoreLists == {"get_field_suggestions", "get_recent_folders", "get_all_suggestions"}
StoreOperations == StoreWrites \cup StoreLists \cup {"get_user_preference", "cleanup_old_data"}

\* C27: every operation of the store returns its sentinel when the storage
\* fails (False for save_metadata_value, save_user_preference and
\* save_recent_folder; an empty list for get_field_suggestions and
\* get_recent_folders; an empty map for get_all_suggestions; the given default
\* for get_user_preference; 0 for cleanup_old_data) and leaves the stored
\* entries as they were.
C27_SentinelOnFailure ==
    [][(op' \in StoreOperations /\ ~arg'.ok) =>
          /\ op' \in StoreWrites => ret' = PyBool(FALSE)
          /\ op' \in StoreLists => ret' = <<>>
          /\ op' = "get_user_preference" => ret' = arg'.default
          /\ op' = "cleanup_old_data" => ret' = PyInt(0)
          /\ rows' = rows
          /\ user_preferences' = user_preferences
          /\ recent_folders' = recent_folders]_vars

\* C27 witness: save_metadata_value has failed on a store that holds a usage
\* entry, a preference and a folder.
C27_Witness ==
    /\ op = "save_metadata_value" /\ ~arg.ok /\ ret = PyBool(FALSE)
    /\ rows # {} /\ user_preferences # {} /\ recent_folders # {}


(***************************************************************************)
(* The frame of save_metadata_value.                                       *)
(***************************************************************************)
IsEntryOf(r, field_name, field_value) ==
    r.field_name = field_name /\ r.field_value = field_value

\* C30: a successful save_metadata_value(f, v) changes only the usage entry
\* of (f, v): every other usage entry keeps its usage_count and last_used, the
\* preference entries and the folder entries are as they were, and every usage
\* entry has usage_count >= 1.
C30_SaveChangesOneEntry ==
    [][(op' = "save_metadata_value" /\ ret' = PyBool(TRUE)) =>
          /\ {r \in rows : ~IsEntryOf(r, arg'.field_name, arg'.field_value)}
                = {r \in rows' : ~IsEntryOf(r, arg'.field_name, arg'.field_value)}
          /\ user_preferences' = user_preferences
          /\ recent_folders' = recent_folders
          /\ \A r \in rows' : r.usage_count >= 1]_vars

\* C30 witness: the entry of (f, v) was counted up beside an entry of another
\* pair that was last used earlier, with a preference and a folder stored.
C30_Witness ==
    /\ op = "save_metadata_value" /\ ret = PyBool(TRUE)
    /\ \E r \in rows : /\ IsEntryOf(r, arg.field_name, arg.field_value)
                       /\ r.usage_count = 2 /\ r.last_used = now
    /\ \E r \in rows : /\ ~IsEntryOf(r, arg.field_name, arg.field_value)
                       /\ r.last_used < now
    /\ user_preferences # {} /\ recent_folders # {}


Copy(value) == PyStrip(PyLower(PyStr(value)))
HasOneOf(s, words) == \E w \in words : Contains(w, s)
LocationWords ==
    {<<"s", "t", "r", "e", "e", "t">>, <<"a", "v", "e", "n", "u", "e">>,
     <<"r", "o", "a", "d">>, <<"l", "a", "n", "e">>, <<"c", "i", "t", "y">>,
     <<"c", "o", "u", "n", "t", "r", "y">>, <<"s", "t", "a", "t", "e">>}
NameWords ==
    {<<"m", "r">>, <<"m", "r", "s">>, <<"m", "s">>, <<"d", "r">>, <<"p", "r", "o", "f">>}
Tags == {"email", "date", "location", "name"}
\* the tags the call has appended to the history of its field
Appended(before, after, f) == SubSeq(after[f], Len(before[f]) + 1, Len(after[f]))
TagsOf(l) == {l[i] : i \in 1..Len(l)}

\* C25: classification of one value, on its trimmed lower-cased copy, gives
\* email iff it contains '@' and '.', date iff it contains a digit and has
\* length >= 8, location iff it contains one of street, avenue, road, lane,
\* city, country, state, name iff it contains one of mr, mrs, ms, dr, prof;
\* every tag appended is one of these four, and the history of a field only
\* grows, tags being neither removed nor deduplicated.  "john@example.com"
\* gives email, "123 Main Street" location, "42" no date.
C25_PatternClassification ==
    [][op' = "_update_field_patterns" =>
          LET f == arg'.field_name
              s == Copy(arg'.field_value)
              new == Appended(field_patterns, field_patterns', f)
          IN /\ SubSeq(field_patterns'[f], 1, Len(field_patterns[f])) = field_patterns[f]
             /\ \A g \in PatternFields \ {f} : field_patterns'[g] = field_patterns[g]
             /\ TagsOf(new) \subseteq Tags
             /\ Len(new) = Cardinality(TagsOf(new))
             /\ "email" \in TagsOf(new) <=> (Contains(<<"@">>, s) /\ Contains(<<".">>, s))
             /\ "date" \in TagsOf(new) <=>
                   ((\E i \in 1..Len(s) : s[i] \in TagsOf(Digits)) /\ Len(s) >= 8)
             /\ "location" \in TagsOf(new) <=> HasOneOf(s, LocationWords)
             /\ "name" \in TagsOf(new) <=> HasOneOf(s, NameWords)
             /\ arg'.field_value = PyS(JohnEmail) => "email" \in TagsOf(new)
             /\ arg'.field_value = PyS(MainStreet) => "location" \in TagsOf(new)
             /\ arg'.field_value = PyS(FortyTwo) => "date" \notin TagsOf(new)]_vars

\* C25 witness: "john@example.com" was classified for a field whose history
\* held email already; the tag is there twice.
C25_Witness ==
    /\ op = "_update_field_patterns"
    /\ arg.field_value = PyS(JohnEmail)
    /\ field_patterns[arg.field_name] = <<"email", "email">>

=============================================================================
